---- MODULE Spec2Model ----
(***************************************************************************)
(* Model of the paper-explorer backend: the identity generator, the        *)
(* registry tables, the reviewed-paper log, the ingestion batch of         *)
(* scripts/run.py and the topic migration of scripts/migrate_topics.py.    *)
(*                                                                         *)
(* Text is modelled as a sequence of Unicode code points, so that the      *)
(* conversions the code applies (lower(), strip(), split(), join) are      *)
(* computed and not assumed.                                               *)
(***************************************************************************)
EXTENDS Integers, Sequences, FiniteSets, TLC

(***************************************************************************)
(* Python str helpers                                                      *)
(***************************************************************************)

\* str.isspace() for one code point (the characters str.split() and
\* str.strip() treat as whitespace).
IsSpace(c) ==
    \/ c \in 9..13
    \/ c \in 28..32
    \/ c \in {133, 160, 5760, 8232, 8233, 8239, 8287, 12288}
    \/ c \in 8192..8202

\* str.lower() for one code point of the ASCII and Latin-1 ranges.
LowerChar(c) ==
    IF c \in 65..90 THEN c + 32
    ELSE IF c \in 192..222 /\ c # 215 THEN c + 32
    ELSE c

\* str.lower()
Lower(s) == [i \in 1..Len(s) |-> LowerChar(s[i])]

\* the suffix of s from position i on
Tail_From(s, i) == SubSeq(s, i, Len(s))

RECURSIVE LStrip(_)
\* str.lstrip()
LStrip(s) ==
    IF s # <<>> /\ IsSpace(Head(s)) THEN LStrip(Tail(s)) ELSE s

RECURSIVE RStrip(_)
\* str.rstrip()
RStrip(s) ==
    IF s # <<>> /\ IsSpace(s[Len(s)]) THEN RStrip(SubSeq(s, 1, Len(s) - 1)) ELSE s

\* str.strip()
Strip(s) == RStrip(LStrip(s))

RECURSIVE SplitFrom(_, _, _)
\* str.split() with no argument: the maximal runs of non-whitespace, in
\* order.  word is the run being read, acc the runs already closed.
SplitFrom(s, word, acc) ==
    IF s = <<>> THEN (IF word = <<>> THEN acc ELSE Append(acc, word))
    ELSE IF IsSpace(Head(s))
         THEN SplitFrom(Tail(s), <<>>, IF word = <<>> THEN acc ELSE Append(acc, word))
         ELSE SplitFrom(Tail(s), Append(word, Head(s)), acc)

Split(s) == SplitFrom(s, <<>>, <<>>)

RECURSIVE Join(_, _)
\* sep.join(parts)
Join(sep, parts) ==
    IF parts = <<>> THEN <<>>
    ELSE IF Len(parts) = 1 THEN parts[1]
    ELSE parts[1] \o sep \o Join(sep, Tail(parts))

\* hashlib.md5(b).hexdigest(): the digest is kept symbolic, as the text
\* "#" followed by the code points hashed, so two digests are equal exactly
\* when their inputs are (MD5 is taken to be collision free on the inputs
\* modelled).  Like a hexadecimal digest, the text has no upper-case letter
\* and no white space at either end when the input has none.
Md5Hex(s) == <<35>> \o s

(***************************************************************************)
(* Identity generator                                                      *)
(***************************************************************************)

\* generate_paper_id with the lower() call dropped.
generate_paper_id_NoLower(title, year) ==
    Md5Hex(Join(<<32>>, Split(title)) \o <<95>> \o year)

\* generate_paper_id(title, year): year is the str the caller passes.
generate_paper_id(title, year) ==
    LET normalized_title == Join(<<32>>, Split(Lower(title)))
        id_string == normalized_title \o <<95>> \o year
    IN  Md5Hex(id_string)

(***************************************************************************)
(* More str helpers                                                        *)
(***************************************************************************)

\* s.startswith(p)
StartsWith(s, p) == Len(p) <= Len(s) /\ SubSeq(s, 1, Len(p)) = p

\* s.endswith(p)
EndsWith(s, p) == Len(p) <= Len(s) /\ SubSeq(s, Len(s) - Len(p) + 1, Len(s)) = p

\* sub in s
Contains(s, sub) ==
    \E i \in 1..(Len(s) - Len(sub) + 1) : SubSeq(s, i, i + Len(sub) - 1) = sub

\* s.find(sub) + 1: the position of the first occurrence, 0 when there is none
Find(s, sub) ==
    IF Contains(s, sub)
    THEN CHOOSE i \in 1..(Len(s) - Len(sub) + 1) :
            /\ SubSeq(s, i, i + Len(sub) - 1) = sub
            /\ \A j \in 1..(i - 1) : SubSeq(s, j, j + Len(sub) - 1) # sub
    ELSE 0

\* a < b for Python str: code point by code point, a proper prefix first
StrLess(a, b) ==
    \/ /\ Len(a) < Len(b)
       /\ SubSeq(b, 1, Len(a)) = a
    \/ \E i \in 1..Len(a) :
          /\ i <= Len(b)
          /\ SubSeq(a, 1, i - 1) = SubSeq(b, 1, i - 1)
          /\ a[i] < b[i]

RECURSIVE SortedStrs(_)
\* sorted(S) for a set of str
SortedStrs(S) ==
    IF S = {} THEN <<>>
    ELSE LET m == CHOOSE x \in S : \A y \in S : x = y \/ StrLess(x, y)
         IN  <<m>> \o SortedStrs(S \ {m})

\* the elements of a sequence
Range(q) == {q[i] : i \in DOMAIN q}

\* str.isdigit(): every character is a digit; the superscript digits
\* (U+00B2, U+00B3, U+00B9) are digits for isdigit() but not for int().
IsDigitStr(s) == s # <<>> /\ \A i \in DOMAIN s : s[i] \in (48..57) \cup {178, 179, 185}

\* int(s) raises ValueError exactly when s is not a decimal literal
IntRaises(s) == s = <<>> \/ \E i \in DOMAIN s : s[i] \notin 48..57

RECURSIVE StrToInt(_)
\* int(s) for a decimal literal
StrToInt(s) ==
    IF s = <<>> THEN 0 ELSE 10 * StrToInt(SubSeq(s, 1, Len(s) - 1)) + (s[Len(s)] - 48)

RECURSIVE IntToStr(_)
\* str(n) for n >= 0
IntToStr(n) ==
    IF n < 10 THEN <<48 + n>> ELSE IntToStr(n \div 10) \o <<48 + (n % 10)>>

(***************************************************************************)
(* Text checks and cleanup of run.py                                       *)
(***************************************************************************)

RECURSIVE clean_unicode_text_EmToEn(_)
\* clean_unicode_text with the em dash replaced by the en dash
clean_unicode_text_EmToEn(text) ==
    IF text = <<>> THEN <<>>
    ELSE LET c == Head(text)
             r == IF c = 8212 THEN <<8211>>
                  ELSE IF c \in 8208..8213 THEN <<45>>
                  ELSE IF c = 160 THEN <<32>>
                  ELSE IF c = 8230 THEN <<46, 46, 46>>
                  ELSE <<c>>
         IN  r \o clean_unicode_text_EmToEn(Tail(text))

RECURSIVE clean_unicode_text(_)
\* clean_unicode_text(text): the dash variants become "-", the no-break
\* space a space, the ellipsis three full stops.
clean_unicode_text(text) ==
    IF text = <<>> THEN <<>>
    ELSE LET c == Head(text)
             r == IF c \in 8208..8213 THEN <<45>>
                  ELSE IF c = 160 THEN <<32>>
                  ELSE IF c = 8230 THEN <<46, 46, 46>>
                  ELSE <<c>>
         IN  r \o clean_unicode_text(Tail(text))

\* the code points contains_non_english_chars rejects
NonEnglishCodePoint(c) ==
    \/ c \in 19968..40959      \* CJK Unified Ideographs
    \/ c \in 13312..19903      \* Extension A
    \/ c \in 131072..173791    \* Extension B
    \/ c \in 173824..177983    \* Extension C
    \/ c \in 177984..178207    \* Extension D
    \/ c \in 178208..183983    \* Extension E
    \/ c \in 63744..64255      \* CJK Compatibility Ideographs
    \/ c \in 12352..12447      \* Hiragana
    \/ c \in 12448..12543      \* Katakana
    \/ c \in 44032..55215      \* Hangul Syllables
    \/ c \in 1024..1279        \* Cyrillic
    \/ c \in 1280..1327        \* Cyrillic Supplement
    \/ c \in 11744..11775      \* Cyrillic Extended-A
    \/ c \in 42560..42655      \* Cyrillic Extended-B
    \/ c \in 1536..1791        \* Arabic
    \/ c \in 1424..1535        \* Hebrew
    \/ c \in 3584..3711        \* Thai

\* contains_non_english_chars(text)
contains_non_english_chars(text) ==
    \E i \in DOMAIN text : NonEnglishCodePoint(text[i])

\* the position of the first character of s that is in the set cs, or
\* Len(s) + 1 when there is none
FirstOf(s, cs) ==
    IF \E i \in DOMAIN s : s[i] \in cs
    THEN CHOOSE i \in DOMAIN s : s[i] \in cs /\ \A j \in 1..(i - 1) : s[j] \notin cs
    ELSE Len(s) + 1

\* the position of the last character of s that is c, or 0
LastOf(s, c) ==
    IF \E i \in DOMAIN s : s[i] = c
    THEN CHOOSE i \in DOMAIN s : s[i] = c /\ \A j \in (i + 1)..Len(s) : s[j] # c
    ELSE 0

\* urlparse(u).hostname for a URL whose "://" (when it has one) ends the
\* scheme: the authority runs to the first "/", "?" or "#", loses its
\* userinfo and its port, and is lower-cased.
UrlHostname(u) ==
    LET p       == Find(u, <<58, 47, 47>>)
        rest    == IF p = 0 THEN u ELSE Tail_From(u, p + 3)
        netloc  == SubSeq(rest, 1, FirstOf(rest, {47, 63, 35}) - 1)
        hostport == Tail_From(netloc, LastOf(netloc, 64) + 1)
        host    == SubSeq(hostport, 1, FirstOf(hostport, {58}) - 1)
    IN  Lower(host)

\* extract_hostname(url)
extract_hostname(url) ==
    LET candidate == Strip(url)
    IN  IF candidate = <<>> THEN <<>>
        ELSE LET hostname == Lower(Strip(UrlHostname(candidate)))
             IN  IF StartsWith(hostname, <<119, 119, 119, 46>>)
                 THEN Tail_From(hostname, 5)
                 ELSE hostname

\* matches_avoid_domain(hostname, patterns) is not None
matches_avoid_domain(hostname, patterns) ==
    /\ hostname # <<>>
    /\ \E pattern \in patterns :
          LET stripped   == Lower(Strip(pattern))
              normalized == IF StartsWith(stripped, <<119, 119, 119, 46>>)
                            THEN Tail_From(stripped, 5) ELSE stripped
          IN  /\ pattern # <<>>
              /\ normalized # <<>>
              /\ \/ hostname = normalized
                 \/ EndsWith(hostname, <<46>> \o normalized)

(***************************************************************************)
(* Registry tables.  A one-column table is the sequence of its rows below  *)
(* the header, a two-column table a sequence of pairs.  What csv.writer    *)
(* writes for a value, csv.DictReader reads back as that value (line       *)
(* breaks inside a value are not modelled).                                *)
(***************************************************************************)

\* load_csv_to_set asking for a column the file does not have: nothing is
\* read
load_csv_to_set_WrongColumn(rows) == {}

\* load_csv_to_set(file_path, column_name) for a file with that column
load_csv_to_set(rows) == {Lower(Strip(rows[i])) : i \in DOMAIN rows}

\* save_set_to_csv writing the rows in descending order
save_set_to_csv_Descending(data) ==
    LET rows == SortedStrs(data)
    IN  [a \in DOMAIN rows |-> rows[Len(rows) + 1 - a]]

\* save_set_to_csv(data, file_path, column_name): one row per element, sorted
save_set_to_csv(data) == SortedStrs(data)

\* load_journal_mapping with the two columns exchanged
load_journal_mapping_Swapped(rows) ==
    LET key(i) == Lower(Strip(rows[i][2]))
        keys   == {key(i) : i \in DOMAIN rows}
        last(x) == CHOOSE i \in DOMAIN rows :
                      key(i) = x /\ \A j \in DOMAIN rows : key(j) = x => j <= i
    IN  [x \in keys |-> Strip(rows[last(x)][1])]

\* load_journal_mapping(file_path): a later row replaces an earlier one
\* with the same key
load_journal_mapping(rows) ==
    LET key(i) == Lower(Strip(rows[i][1]))
        keys   == {key(i) : i \in DOMAIN rows}
        last(k) == CHOOSE i \in DOMAIN rows :
                      key(i) = k /\ \A j \in DOMAIN rows : key(j) = k => j <= i
    IN  [k \in keys |-> Strip(rows[last(k)][2])]

\* save_journal_mapping(mapping, file_path): sorted(mapping.items())
save_journal_mapping(mapping) ==
    LET ks == SortedStrs(DOMAIN mapping)
    IN  [i \in DOMAIN ks |-> <<ks[i], mapping[ks[i]]>>]

(***************************************************************************)
(* Reviewed-paper log.  Time is counted in ticks, TicksPerDay to a day;    *)
(* a date is a whole day.  A row of paper_reviewed.csv is                  *)
(* [paper_id, date_added], where date_added is                             *)
(*   [kind |-> "date", day |-> d]  text that strptime parses to day d,     *)
(*   [kind |-> "text", day |-> 0]  text that strptime rejects,             *)
(*   [kind |-> "none", day |-> 0]  no second field on the line, which      *)
(*                                 csv.DictReader reads as None.           *)
(***************************************************************************)

TicksPerDay == 2

REVIEW_DAYS == 365

\* datetime.now() - timedelta(days=365)
CutoffDate(now_) == now_ - REVIEW_DAYS * TicksPerDay

\* strptime succeeds and date_added >= cutoff_date
RowIsRecent(row, now_) ==
    /\ row.date_added.kind = "date"
    /\ row.date_added.day * TicksPerDay >= CutoffDate(now_)

\* the first row whose date_added is None: row['date_added'].strip()
\* raises AttributeError there, which the per-row "except ValueError" does
\* not catch; Len(rows) + 1 when every row has both fields
FirstShortRow(rows) ==
    IF \E i \in DOMAIN rows : rows[i].date_added.kind = "none"
    THEN CHOOSE i \in DOMAIN rows :
            /\ rows[i].date_added.kind = "none"
            /\ \A j \in 1..(i - 1) : rows[j].date_added.kind # "none"
    ELSE Len(rows) + 1

\* the rows read before the reader fails (all of them when it does not)
RowsRead(rows) == SubSeq(rows, 1, FirstShortRow(rows) - 1)

\* load_reviewed_papers(file_path): the set returned.  Each of the three
\* encodings reads the same rows and stops at the same row.
load_reviewed_papers(rows, now_) ==
    {Strip(RowsRead(rows)[i].paper_id) :
        i \in {j \in DOMAIN RowsRead(rows) : RowIsRecent(RowsRead(rows)[j], now_)}}

\* load_reviewed_papers(file_path): the file it leaves.  After the last
\* encoding has failed the file is rewritten with the header alone.
load_reviewed_papers_file(rows) ==
    IF FirstShortRow(rows) <= Len(rows) THEN <<>> ELSE rows

RECURSIVE EntriesInOrder(_, _)
\* the entries of q whose paper_id is ids[1], then those of ids[2], ...
EntriesInOrder(ids, q) ==
    IF ids = <<>> THEN <<>>
    ELSE LET Same(e) == e.paper_id = Head(ids)
         IN  SelectSeq(q, Same) \o EntriesInOrder(Tail(ids), q)

\* save_reviewed_papers giving the rows it keeps the current date
save_reviewed_papers_Refresh(reviewed_papers, rows, now_) ==
    LET read     == RowsRead(rows)
        Keep(r)  == RowIsRecent(r, now_)
        kept     == SelectSeq(read, Keep)
        current_date == [kind |-> "date", day |-> now_ \div TicksPerDay]
        valid    == [i \in DOMAIN kept |->
                        [paper_id |-> Strip(kept[i].paper_id),
                         date_added |-> current_date]]
        existing_papers == {valid[i].paper_id : i \in DOMAIN valid}
        fresh    == reviewed_papers \ existing_papers
        freshSeq == SortedStrs(fresh)
        added    == [i \in DOMAIN freshSeq |->
                        [paper_id |-> freshSeq[i], date_added |-> current_date]]
        all      == valid \o added
    IN  EntriesInOrder(SortedStrs({all[i].paper_id : i \in DOMAIN all}), all)

\* save_reviewed_papers(reviewed_papers, file_path): the rows written
save_reviewed_papers(reviewed_papers, rows, now_) ==
    LET read     == RowsRead(rows)
        Keep(r)  == RowIsRecent(r, now_)
        kept     == SelectSeq(read, Keep)
        valid    == [i \in DOMAIN kept |->
                        [paper_id |-> Strip(kept[i].paper_id),
                         date_added |-> kept[i].date_added]]
        existing_papers == {valid[i].paper_id : i \in DOMAIN valid}
        fresh    == reviewed_papers \ existing_papers
        current_date == [kind |-> "date", day |-> now_ \div TicksPerDay]
        freshSeq == SortedStrs(fresh)
        added    == [i \in DOMAIN freshSeq |->
                        [paper_id |-> freshSeq[i], date_added |-> current_date]]
        all      == valid \o added
    IN  EntriesInOrder(SortedStrs({all[i].paper_id : i \in DOMAIN all}), all)

(***************************************************************************)
(* Topic migration (scripts/migrate_topics.py)                             *)
(***************************************************************************)

TOPIC_altimetry == <<97, 108, 116, 105, 109, 101, 116, 114, 121>>
TOPIC_bias_correction == <<98, 105, 97, 115, 95, 99, 111, 114, 114, 101, 99, 116, 105, 111, 110>>
TOPIC_comparative_studies == <<99, 111, 109, 112, 97, 114, 97, 116, 105, 118, 101, 95, 115, 116, 117, 100, 105, 101, 115>>
TOPIC_data_assimilation == <<100, 97, 116, 97, 95, 97, 115, 115, 105, 109, 105, 108, 97, 116, 105, 111, 110>>
TOPIC_hec == <<104, 101, 99>>
TOPIC_iot == <<105, 111, 116>>
TOPIC_nwp == <<110, 119, 112>>
TOPIC_rhessys == <<114, 104, 101, 115, 115, 121, 115>>
TOPIC_surrogate == <<115, 117, 114, 114, 111, 103, 97, 116, 101>>
TOPIC_wrf == <<119, 114, 102>>
TOPIC_satellite_application_et == <<115, 97, 116, 101, 108, 108, 105, 116, 101, 45, 97, 112, 112, 108, 105, 99, 97, 116, 105, 111, 110, 45, 101, 116>>
TOPIC_satellite_application_ET == <<115, 97, 116, 101, 108, 108, 105, 116, 101, 45, 97, 112, 112, 108, 105, 99, 97, 116, 105, 111, 110, 45, 69, 84>>
TOPIC_satellite_application_discharge == <<115, 97, 116, 101, 108, 108, 105, 116, 101, 45, 97, 112, 112, 108, 105, 99, 97, 116, 105, 111, 110, 45, 100, 105, 115, 99, 104, 97, 114, 103, 101>>
TOPIC_satellite_application_flood == <<115, 97, 116, 101, 108, 108, 105, 116, 101, 45, 97, 112, 112, 108, 105, 99, 97, 116, 105, 111, 110, 45, 102, 108, 111, 111, 100>>
TOPIC_satellite_application_rainfall == <<115, 97, 116, 101, 108, 108, 105, 116, 101, 45, 97, 112, 112, 108, 105, 99, 97, 116, 105, 111, 110, 45, 114, 97, 105, 110, 102, 97, 108, 108, 45, 104, 121, 100, 114, 111, 108, 111, 103, 105, 99, 97, 108, 45, 109, 111, 100, 101, 108, 108, 105, 110, 103>>
TOPIC_dynamic_calibration == <<100, 121, 110, 97, 109, 105, 99, 45, 99, 97, 108, 105, 98, 114, 97, 116, 105, 111, 110>>
TOPIC_optimization_tool == <<111, 112, 116, 105, 109, 105, 122, 97, 116, 105, 111, 110, 45, 116, 111, 111, 108>>
TOPIC_soil_erosion == <<115, 111, 105, 108, 45, 101, 114, 111, 115, 105, 111, 110>>
TOPIC_web_mapping_development == <<119, 101, 98, 45, 109, 97, 112, 112, 105, 110, 103, 45, 100, 101, 118, 101, 108, 111, 112, 109, 101, 110, 116>>
TOPIC_storage_structure == <<115, 116, 111, 114, 97, 103, 101, 45, 115, 116, 114, 117, 99, 116, 117, 114, 101>>
TOPIC_optimization == <<111, 112, 116, 105, 109, 105, 122, 97, 116, 105, 111, 110>>
TOPIC_sediment == <<115, 101, 100, 105, 109, 101, 110, 116>>
TOPIC_software_development == <<115, 111, 102, 116, 119, 97, 114, 101, 45, 100, 101, 118, 101, 108, 111, 112, 109, 101, 110, 116>>
TOPIC_reservoir == <<114, 101, 115, 101, 114, 118, 111, 105, 114>>
TOPIC_wavelet == <<119, 97, 118, 101, 108, 101, 116>>
TOPIC_satellite_application_grace == <<115, 97, 116, 101, 108, 108, 105, 116, 101, 45, 97, 112, 112, 108, 105, 99, 97, 116, 105, 111, 110, 45, 103, 114, 97, 99, 101>>
TOPIC_frequency_analysis == <<102, 114, 101, 113, 117, 101, 110, 99, 121, 45, 97, 110, 97, 108, 121, 115, 105, 115>>
TOPIC_grace == <<103, 114, 97, 99, 101>>

TOPICS_TO_DELETE ==
    {TOPIC_altimetry, TOPIC_bias_correction, TOPIC_comparative_studies,
     TOPIC_data_assimilation, TOPIC_hec, TOPIC_iot, TOPIC_nwp, TOPIC_rhessys,
     TOPIC_surrogate, TOPIC_wrf, TOPIC_satellite_application_et,
     TOPIC_satellite_application_ET, TOPIC_satellite_application_discharge,
     TOPIC_satellite_application_flood, TOPIC_satellite_application_rainfall}

\* source -> target
TOPICS_TO_MERGE ==
    (TOPIC_dynamic_calibration :> TOPIC_optimization) @@
    (TOPIC_optimization_tool :> TOPIC_optimization) @@
    (TOPIC_soil_erosion :> TOPIC_sediment) @@
    (TOPIC_web_mapping_development :> TOPIC_software_development) @@
    (TOPIC_storage_structure :> TOPIC_reservoir)

\* a rename table in which the target of one rename is the source of
\* another
TOPICS_TO_RENAME_Chained ==
    (TOPIC_wavelet :> TOPIC_frequency_analysis) @@
    (TOPIC_frequency_analysis :> TOPIC_grace)

\* old -> new
TOPICS_TO_RENAME ==
    (TOPIC_wavelet :> TOPIC_frequency_analysis) @@
    (TOPIC_satellite_application_grace :> TOPIC_grace)

\* the configuration the script ships with
ShippedConfig ==
    [delete |-> TOPICS_TO_DELETE, merge |-> TOPICS_TO_MERGE, rename |-> TOPICS_TO_RENAME]

\* MigrationStats() and TopicMigrator.final_topics, as constructed
MigrationStats ==
    [papers_deleted |-> 0, papers_merged |-> 0, papers_renamed |-> 0,
     deleted_paper_ids |-> {}, topics_deleted |-> {},
     topics_merged |-> <<>>, topics_renamed |-> <<>>,
     final_topics |-> {}]

\* defaultdict(int): d[key] += 1
Incr(d, key) ==
    IF key \in DOMAIN d THEN [d EXCEPT ![key] = @ + 1] ELSE d @@ (key :> 1)

RECURSIVE RewriteTopics_NoDedupe(_, _, _)
\* the loop of process_paper appending every target and every tag, present
\* or not
RewriteTopics_NoDedupe(tags, cfg, acc) ==
    IF tags = <<>> THEN acc
    ELSE LET topic == Head(tags)
         IN  IF topic \in DOMAIN cfg.merge
             THEN RewriteTopics_NoDedupe(Tail(tags), cfg,
                    [acc EXCEPT !.new_topics = Append(@, cfg.merge[topic]),
                                !.topics_merged = Incr(@, <<topic, cfg.merge[topic]>>),
                                !.merged = TRUE])
             ELSE IF topic \in DOMAIN cfg.rename
             THEN RewriteTopics_NoDedupe(Tail(tags), cfg,
                    [acc EXCEPT !.new_topics = Append(@, cfg.rename[topic]),
                                !.topics_renamed = Incr(@, <<topic, cfg.rename[topic]>>),
                                !.renamed = TRUE])
             ELSE RewriteTopics_NoDedupe(Tail(tags), cfg,
                    [acc EXCEPT !.new_topics = Append(@, topic)])

RECURSIVE RewriteTopics(_, _, _)
\* the loop of process_paper over paper["topic"]: acc is
\* [new_topics, merged, renamed, topics_merged, topics_renamed]
RewriteTopics(tags, cfg, acc) ==
    IF tags = <<>> THEN acc
    ELSE LET topic == Head(tags)
             add(t) == IF t \in Range(acc.new_topics) THEN acc.new_topics
                       ELSE Append(acc.new_topics, t)
         IN  IF topic \in DOMAIN cfg.merge
             THEN RewriteTopics(Tail(tags), cfg,
                    [acc EXCEPT !.new_topics = add(cfg.merge[topic]),
                                !.topics_merged = Incr(@, <<topic, cfg.merge[topic]>>),
                                !.merged = TRUE])
             ELSE IF topic \in DOMAIN cfg.rename
             THEN RewriteTopics(Tail(tags), cfg,
                    [acc EXCEPT !.new_topics = add(cfg.rename[topic]),
                                !.topics_renamed = Incr(@, <<topic, cfg.rename[topic]>>),
                                !.renamed = TRUE])
             ELSE RewriteTopics(Tail(tags), cfg, [acc EXCEPT !.new_topics = add(topic)])

\* process_paper testing the delete set after the rewrite, on the new tags
process_paper_RewriteFirst(paper, cfg, stats) ==
    IF "topic" \notin DOMAIN paper \/ paper.topic = <<>>
    THEN [kept |-> TRUE, paper |-> paper, action |-> "unchanged", stats |-> stats]
    ELSE LET r == RewriteTopics(paper.topic, cfg,
                    [new_topics |-> <<>>, merged |-> FALSE, renamed |-> FALSE,
                     topics_merged |-> stats.topics_merged,
                     topics_renamed |-> stats.topics_renamed])
             st == [stats EXCEPT
                      !.topics_merged = r.topics_merged,
                      !.topics_renamed = r.topics_renamed,
                      !.papers_merged = IF r.merged THEN @ + 1 ELSE @,
                      !.papers_renamed = IF ~r.merged /\ r.renamed THEN @ + 1 ELSE @]
             np == [paper EXCEPT !.topic = r.new_topics]
         IN  IF Range(r.new_topics) \cap cfg.delete # {}
             THEN [kept |-> FALSE, paper |-> paper, action |-> "deleted",
                   stats |-> [st EXCEPT
                       !.papers_deleted = @ + 1,
                       !.deleted_paper_ids = @ \cup {paper.id},
                       !.topics_deleted = @ \cup (Range(r.new_topics) \cap cfg.delete)]]
             ELSE [kept |-> TRUE, paper |-> np,
                   action |-> IF r.merged THEN "merged"
                              ELSE IF r.renamed THEN "renamed" ELSE "unchanged",
                   stats |-> [st EXCEPT !.final_topics = @ \cup Range(r.new_topics)]]

\* TopicMigrator.process_paper(paper): [kept, paper, action, stats]
process_paper(paper, cfg, stats) ==
    IF "topic" \notin DOMAIN paper \/ paper.topic = <<>>
    THEN [kept |-> TRUE, paper |-> paper, action |-> "unchanged", stats |-> stats]
    ELSE LET original_topics == Range(paper.topic)
             paper_id == paper.id
         IN  IF original_topics \cap cfg.delete # {}
             THEN [kept |-> FALSE, paper |-> paper, action |-> "deleted",
                   stats |-> [stats EXCEPT
                       !.papers_deleted = @ + 1,
                       !.deleted_paper_ids = @ \cup {paper_id},
                       !.topics_deleted = @ \cup (original_topics \cap cfg.delete)]]
             ELSE LET r == RewriteTopics(paper.topic, cfg,
                             [new_topics |-> <<>>, merged |-> FALSE, renamed |-> FALSE,
                              topics_merged |-> stats.topics_merged,
                              topics_renamed |-> stats.topics_renamed])
                      st == [stats EXCEPT
                               !.topics_merged = r.topics_merged,
                               !.topics_renamed = r.topics_renamed,
                               !.final_topics = @ \cup Range(r.new_topics)]
                      np == [paper EXCEPT !.topic = r.new_topics]
                  IN  IF r.merged
                      THEN [kept |-> TRUE, paper |-> np, action |-> "merged",
                            stats |-> [st EXCEPT !.papers_merged = @ + 1]]
                      ELSE IF r.renamed
                      THEN [kept |-> TRUE, paper |-> np, action |-> "renamed",
                            stats |-> [st EXCEPT !.papers_renamed = @ + 1]]
                      ELSE [kept |-> TRUE, paper |-> np, action |-> "unchanged",
                            stats |-> st]

RECURSIVE process_json_file_KeepAll(_, _, _, _)
\* process_json_file leaving the records to delete in the document
process_json_file_KeepAll(papers, cfg, stats, new_papers) ==
    IF papers = <<>> THEN [papers |-> new_papers, stats |-> stats]
    ELSE LET r == process_paper(Head(papers), cfg, stats)
         IN  process_json_file_KeepAll(Tail(papers), cfg, r.stats,
                 Append(new_papers, r.paper))

RECURSIVE process_json_file(_, _, _, _)
\* TopicMigrator.process_json_file: the loop over data["papers"];
\* returns [papers, stats]
process_json_file(papers, cfg, stats, new_papers) ==
    IF papers = <<>> THEN [papers |-> new_papers, stats |-> stats]
    ELSE LET r == process_paper(Head(papers), cfg, stats)
         IN  process_json_file(Tail(papers), cfg, r.stats,
                 IF r.kept THEN Append(new_papers, r.paper) ELSE new_papers)

RECURSIVE ProcessDocs(_, _, _, _)
\* the loop of TopicMigrator.run over sorted(JSON_DIR.glob("*.json")):
\* returns [docs, stats]
ProcessDocs(names, docs, cfg, stats) ==
    IF names = {} THEN [docs |-> docs, stats |-> stats]
    ELSE LET n == CHOOSE x \in names : \A y \in names : x <= y
             r == process_json_file(docs[n], cfg, stats, <<>>)
         IN  ProcessDocs(names \ {n}, [docs EXCEPT ![n] = r.papers], cfg, r.stats)

\* update_topic_csv removing the deleted topics and the sources last
NewTopicSet_RemoveLast(rows, cfg, stats) ==
    LET existing_topics == {rows[i] : i \in {j \in DOMAIN rows : rows[j] # <<>>}}
    IN  (existing_topics \cup Range(cfg.merge) \cup Range(cfg.rename)
            \cup stats.final_topics)
        \ (cfg.delete \cup DOMAIN cfg.merge \cup DOMAIN cfg.rename)

\* TopicMigrator.update_topic_csv: the set of names computed
NewTopicSet(rows, cfg, stats) ==
    LET existing_topics == {rows[i] : i \in {j \in DOMAIN rows : rows[j] # <<>>}}
    IN  ((((existing_topics \ cfg.delete) \ DOMAIN cfg.merge) \ DOMAIN cfg.rename)
            \cup Range(cfg.merge) \cup Range(cfg.rename)) \cup stats.final_topics

\* TopicMigrator.update_topic_csv without the closing empty row
update_topic_csv_NoBlank(rows, cfg, stats) ==
    SortedStrs(NewTopicSet(rows, cfg, stats))

\* TopicMigrator.update_topic_csv: the rows written, the empty row last
update_topic_csv(rows, cfg, stats) ==
    SortedStrs(NewTopicSet(rows, cfg, stats)) \o << <<>> >>

\* update_paper_id_csv leaving the file as it is
update_paper_id_csv_Keep(rows, stats) == rows

\* TopicMigrator.update_paper_id_csv: the rows unique_paper_id.csv holds
\* afterwards
update_paper_id_csv(rows, stats) ==
    IF stats.deleted_paper_ids = {} THEN rows
    ELSE LET existing_ids == {rows[i] : i \in {j \in DOMAIN rows : rows[j] # <<>>}}
         IN  SortedStrs(existing_ids \ stats.deleted_paper_ids)

(***************************************************************************)
(* State                                                                   *)
(***************************************************************************)

VARIABLES
    \* the files under data/databases
    f_avoid,            \* csv/avoid.csv, column name
    f_keywords,         \* csv/avoid_keywords.csv, column keyword
    f_urls,             \* csv/avoid_urls.csv, column pattern
    f_paper_ids,        \* csv/unique_paper_id.csv, column id
    f_journal,          \* csv/unique_journal.csv, pairs <<lowercase_name, correct_name>>
    f_topics,           \* csv/unique_topic.csv, column name
    f_reviewed,         \* csv/paper_reviewed.csv, rows [paper_id, date_added]
    f_json,             \* json/<year>.json: year |-> data["papers"]
    f_gz,               \* upload/<year>.json.gz: year |-> the papers compressed
    now,                \* the clock, in ticks
    \* the locals of process_eml_files
    pc,                 \* where the process is
    avoid_journals, avoid_keywords, avoid_url_patterns, unique_paper_ids,
    journal_mapping, topics, reviewed_paper_ids, new_reviewed_papers,
    non_english_papers_count, keyword_filtered_count, url_filtered_count,
    unique_titles, current_year, filtered_titles, selected_papers,
    k,                  \* position of the filtering loop in unique_titles
    i,                  \* position of the processing loop in filtered_titles
    paper_metadata, paper_id,
    \* what an observer of the run has seen
    lookups,            \* the titles passed to scraper.search_paper, in order
    prompts,            \* the titles the operator was shown and asked about
    outcomes,           \* per title handled: [title, state, id]
    ids_at_load,        \* unique_paper_ids as loaded at the start of the batch
    reviewed_at_load,   \* reviewed_paper_ids as loaded at the start of the batch
    batches,            \* batches started so far
    stats,              \* the MigrationStats of the last migration
    migrations,         \* migrations run so far
    config,             \* TOPICS_TO_DELETE, TOPICS_TO_MERGE, TOPICS_TO_RENAME
    dry_run,            \* TopicMigrator.dry_run of the last migration
    writes,             \* the files the save calls of the batch wrote, in order
    lookup_results,     \* per lookup: [paper_info, error], error for the except branch
    scraper,            \* the GoogleScholarScraper: [browser, initialized], browser 0 for None
    chromium,           \* the browser processes started: number |-> "running" or "exited"
    calls               \* the calls made on the scraper that returned, in order

files == <<f_avoid, f_keywords, f_urls, f_paper_ids, f_journal, f_topics,
           f_reviewed, f_json, f_gz>>

registries == <<avoid_journals, avoid_keywords, avoid_url_patterns, unique_paper_ids,
                journal_mapping, topics, reviewed_paper_ids, new_reviewed_papers>>

counters == <<non_english_papers_count, keyword_filtered_count, url_filtered_count>>

observed == <<lookups, prompts, outcomes, ids_at_load, reviewed_at_load, batches>>

vars == <<files, now, pc, registries, counters, unique_titles, current_year,
          filtered_titles, selected_papers, k, i, paper_metadata, paper_id,
          observed, stats, migrations, config, scraper, chromium, calls, dry_run, writes, lookup_results>>

(***************************************************************************)
(* Bounds and the inputs the environment may supply                        *)
(***************************************************************************)

MaxTitles == 2      \* titles in the alerts of the batch of Spec
MaxBatches == 1     \* batches run in Spec
MaxRunTitles == 1   \* titles in the alerts of one batch of SpecRuns
MaxRuns == 2        \* batches run in SpecRuns
MaxMigrations == 1  \* migrations run
MaxChoice == 1      \* the largest topic number the operator types
FirstDay == 300     \* the day of 2025 on which the clock starts
ClockStepDays == 400 \* the days between two runs
MaxClockDays == 700  \* the clock stops there

STR_y == <<121>>
STR_n == <<110>>
TITLE_ac == <<97, 32, 99>>          \* "a c"
TITLE_Ac == <<65, 32, 32, 99>>      \* "A  c"
TITLE_zh_k == <<20013, 107>>        \* U+4E2D "k": a CJK character and a keyword
TITLE_k == <<107>>                  \* "k": the keyword alone
TITLE_d == <<100>>                  \* "d"
TITLE_zh == <<20013>>
KEYWORD_k == <<107>>
JOURNAL_Jn == <<74, 110>>           \* "Jn"
JOURNAL_JN == <<74, 78>>            \* "JN"
JOURNAL_Sp == <<83, 112>>           \* "Sp"
JOURNAL_sp == <<115, 112>>          \* "sp"
ABSTRACT_x == <<120>>
YEAR_2025 == <<50, 48, 50, 53>>
YEAR_sup2 == <<178>>                \* U+00B2, superscript two
YEAR_ab == <<97, 98>>
URL_ok == <<104, 116, 116, 112, 115, 58, 47, 47, 111, 107, 46, 111, 114, 103, 47, 112>>  \* "https://ok.org/p"
URL_bad == <<104, 116, 116, 112, 58, 47, 47, 87, 87, 87, 46, 120, 46, 98, 97, 100, 46, 105, 111, 47, 120>>  \* "http://WWW.x.bad.io/x"
PATTERN_bad == <<98, 97, 100, 46, 105, 111>>   \* "bad.io"
TOPIC_Hy == <<72, 121>>             \* "Hy"
TERM_WRF == <<87, 82, 70>>          \* "WRF"

AlertTitles == {TITLE_ac, TITLE_Ac, TITLE_zh_k, TITLE_k, TITLE_d}

RECURSIVE SeqsUpTo(_, _)
\* the sequences over S of length at most n
SeqsUpTo(S, n) ==
    IF n = 0 THEN {<<>>}
    ELSE LET shorter == SeqsUpTo(S, n - 1)
         IN  shorter \cup {Append(q, x) : q \in shorter, x \in S}

\* what the .eml files of one batch can hold
AlertBatches == SeqsUpTo(AlertTitles, MaxTitles) \ {<<>>}
RunBatches == SeqsUpTo(AlertTitles, MaxRunTitles) \ {<<>>}

\* the calendar year of a clock value; the model's years have 365 days and
\* the clock starts in 2025
YearOf(now_) == 2025 + (now_ \div TicksPerDay) \div 365

(***************************************************************************)
(* Initial state: a store written by earlier runs of the program, no       *)
(* batch running.                                                          *)
(***************************************************************************)

NoMetadata == [title |-> <<>>]

\* main has constructed the scraper and initialize() has started its browser
ScraperStarted ==
    /\ scraper = [browser |-> 1, initialized |-> TRUE]
    /\ chromium = <<"running">>
    /\ calls = <<"initialize">>

BatchIdle ==
    /\ avoid_journals = {} /\ avoid_keywords = {} /\ avoid_url_patterns = {}
    /\ unique_paper_ids = {} /\ journal_mapping = <<>> /\ topics = {}
    /\ reviewed_paper_ids = {} /\ new_reviewed_papers = {}
    /\ non_english_papers_count = 0 /\ keyword_filtered_count = 0
    /\ url_filtered_count = 0
    /\ unique_titles = <<>> /\ current_year = <<>> /\ filtered_titles = <<>>
    /\ selected_papers = <<>> /\ k = 1 /\ i = 1
    /\ paper_metadata = NoMetadata /\ paper_id = <<>>
    /\ lookups = <<>> /\ prompts = <<>> /\ outcomes = <<>>
    /\ ids_at_load = {} /\ reviewed_at_load = {}
    /\ batches = 0
    /\ stats = MigrationStats
    /\ migrations = 0
    /\ dry_run = FALSE
    /\ writes = <<>>
    /\ lookup_results = <<>>

\* the lists the operator keeps by hand, and the registries as shipped
HandKeptLists ==
    /\ f_avoid = <<JOURNAL_sp>>
    /\ f_keywords = <<KEYWORD_k>>
    /\ f_urls = <<PATTERN_bad>>
    /\ f_journal = <<>>
    /\ f_topics = <<TOPIC_wavelet, TOPIC_wrf>>

\* a store no batch has written to
FreshStore ==
    /\ HandKeptLists
    /\ f_paper_ids = <<>>
    /\ f_reviewed = <<>>
    /\ f_json = <<>>
    /\ f_gz = <<>>

\* the record of "a c" (2025) as an earlier batch persisted it
RECORD_ac ==
    [id |-> generate_paper_id(TITLE_ac, YEAR_2025), title |-> TITLE_ac, year |-> 2025,
     journal |-> JOURNAL_Jn, abstract |-> ABSTRACT_x, url |-> URL_ok,
     topic |-> <<TOPIC_wavelet>>]

\* a store earlier batches have written to: "a c" (2025) was persisted
\* before the reviewed log was kept, "d" was declined the day before
EarlierStore ==
    /\ HandKeptLists
    /\ f_paper_ids = <<RECORD_ac.id>>
    /\ f_reviewed = << [paper_id |-> generate_paper_id(TITLE_d, YEAR_2025),
                        date_added |-> [kind |-> "date", day |-> FirstDay - 1]] >>
    /\ f_json = (2025 :> <<RECORD_ac>>)
    /\ f_gz = (2025 :> <<RECORD_ac>>)

Init ==
    /\ FreshStore \/ EarlierStore
    /\ now = FirstDay * TicksPerDay + 1
    /\ BatchIdle
    /\ pc = "idle"
    /\ ScraperStarted
    /\ config = ShippedConfig

(***************************************************************************)
(* process_eml_files                                                       *)
(***************************************************************************)

RECURSIVE Dedupe(_, _)
\* "Remove duplicates while preserving order"
Dedupe(titles, seen) ==
    IF titles = <<>> THEN <<>>
    ELSE IF Head(titles) \in seen THEN Dedupe(Tail(titles), seen)
    ELSE <<Head(titles)>> \o Dedupe(Tail(titles), seen \cup {Head(titles)})

\* The start of process_eml_files: the registries are loaded, the titles
\* of the alerts extracted and de-duplicated, the current year taken.
StartBatch(all_titles) ==
    /\ pc = "idle"
    /\ avoid_journals' = load_csv_to_set(f_avoid)
    /\ avoid_keywords' = load_csv_to_set(f_keywords)
    /\ avoid_url_patterns' = load_csv_to_set(f_urls)
    /\ unique_paper_ids' = load_csv_to_set(f_paper_ids)
    /\ journal_mapping' = load_journal_mapping(f_journal)
    /\ topics' = load_csv_to_set(f_topics)
    /\ reviewed_paper_ids' = load_reviewed_papers(f_reviewed, now)
    /\ f_reviewed' = load_reviewed_papers_file(f_reviewed)
    /\ new_reviewed_papers' = {}
    /\ non_english_papers_count' = 0
    /\ keyword_filtered_count' = 0
    /\ url_filtered_count' = 0
    /\ unique_titles' = Dedupe(all_titles, {})
    /\ current_year' = IntToStr(YearOf(now))
    /\ filtered_titles' = <<>>
    /\ selected_papers' = <<>>
    /\ k' = 1 /\ i' = 1
    /\ paper_metadata' = NoMetadata /\ paper_id' = <<>>
    /\ lookups' = <<>> /\ prompts' = <<>> /\ outcomes' = <<>>
    /\ ids_at_load' = load_csv_to_set(f_paper_ids)
    /\ reviewed_at_load' = load_reviewed_papers(f_reviewed, now)
    /\ batches' = batches + 1
    /\ pc' = "prefilter"
    /\ UNCHANGED <<f_avoid, f_keywords, f_urls, f_paper_ids, f_journal, f_topics,
                   f_json, f_gz, now, stats, migrations,
                   config, scraper, chromium, calls, dry_run, writes, lookup_results>>

\* where the process goes after the filtering loop has handled title k
AfterPreFilter(kept) ==
    IF k < Len(unique_titles) THEN "prefilter"
    ELSE IF kept = <<>> THEN "save" ELSE "lookup"

\* "for keyword in avoid_keywords: if keyword in title_lower: ... break":
\* the values found_keyword can end with.  The set is walked in no fixed
\* order and the walk stops at the first keyword contained in the title
\* (the empty string is contained in every title); <<>> also stands for
\* None, which is as false as "".
FoundKeywords(title) ==
    LET hits == {keyword \in avoid_keywords : Contains(Lower(title), keyword)}
    IN  IF hits = {} THEN {<<>>} ELSE hits

\* the verdict of the filtering loop on one title, checks in source order
PreFilterVerdict_KeywordFirst(title, found_keyword) ==
    IF found_keyword # <<>> THEN "keyword"
    ELSE IF contains_non_english_chars(title) THEN "non_english"
    ELSE IF generate_paper_id(title, current_year) \in reviewed_paper_ids THEN "reviewed"
    ELSE IF generate_paper_id(title, current_year) \in unique_paper_ids THEN "registered"
    ELSE "pass"

\* the filtering loop without the two checks of the early id
PreFilterVerdict_NoIdCheck(title, found_keyword) ==
    IF contains_non_english_chars(title) THEN "non_english"
    ELSE IF found_keyword # <<>> THEN "keyword"
    ELSE "pass"

PreFilterVerdict(title, found_keyword) ==
    IF contains_non_english_chars(title) THEN "non_english"
    ELSE IF found_keyword # <<>> THEN "keyword"
    ELSE IF generate_paper_id(title, current_year) \in reviewed_paper_ids THEN "reviewed"
    ELSE IF generate_paper_id(title, current_year) \in unique_paper_ids THEN "registered"
    ELSE "pass"

\* One round of the early filtering loop (run.py 652-685).
PreFilterTitle ==
    /\ pc = "prefilter"
    /\ \E found_keyword \in FoundKeywords(unique_titles[k]) :
         LET title == unique_titles[k]
             verdict == PreFilterVerdict(title, found_keyword)
             kept == IF verdict = "pass" THEN Append(filtered_titles, title)
                     ELSE filtered_titles
         IN  /\ non_english_papers_count' =
                   IF verdict = "non_english" THEN non_english_papers_count + 1
                   ELSE non_english_papers_count
             /\ keyword_filtered_count' =
                   IF verdict = "keyword" THEN keyword_filtered_count + 1
                   ELSE keyword_filtered_count
             /\ paper_id' = IF verdict \in {"non_english", "keyword"} THEN paper_id
                            ELSE generate_paper_id(title, current_year)
             /\ filtered_titles' = kept
             /\ outcomes' = IF verdict = "pass" THEN outcomes
                            ELSE Append(outcomes,
                                   [title |-> title, state |-> "PreFiltered-out",
                                    reason |-> verdict,
                                    id |-> generate_paper_id(title, current_year)])
             /\ k' = k + 1
             /\ pc' = AfterPreFilter(kept)
    /\ UNCHANGED <<files, now, registries, url_filtered_count, unique_titles, current_year,
                   selected_papers, i, paper_metadata,
                   lookups, prompts, ids_at_load, reviewed_at_load, batches, stats, migrations,
                   config, scraper, chromium, calls, dry_run, writes, lookup_results>>

\* what scraper.search_paper(title) can return: the paper_info of a
\* search that failed or found nothing (the title as passed, every other
\* field empty), and results with the fields a result page can give
LookupResults(title) ==
    LET found(t, y, j, u) ==
            [title |-> t, year |-> y, journal |-> j, abstract |-> ABSTRACT_x, url |-> u]
    IN  { [title |-> title, year |-> <<>>, journal |-> <<>>, abstract |-> <<>>, url |-> <<>>],
          found(title, YEAR_2025, JOURNAL_Jn, URL_ok),
          found(TITLE_ac, YEAR_2025, JOURNAL_Jn, URL_ok),
          found(title, YEAR_2025, JOURNAL_Jn, URL_bad),
          found(TITLE_zh, YEAR_2025, JOURNAL_Jn, URL_ok),
          found(title, YEAR_2025, JOURNAL_Sp, URL_ok) }

\* "continue", or the end of the loop body: the next title, or the final
\* save after the last one
NextTitle ==
    /\ i' = i + 1
    /\ pc' = IF i < Len(filtered_titles) THEN "lookup" ELSE "save"

\* the title has reached a terminal state of its state machine
Outcome(state, reason, id) ==
    outcomes' = Append(outcomes, [title |-> filtered_titles[i], state |-> state,
                                  reason |-> reason, id |-> id])

\* "Convert scraped format to our storage format" (authors, citations and
\* date_added, which no check reads, are left out of the record)
StorageFormat(paper_info) ==
    [title    |-> clean_unicode_text(paper_info.title),
     year     |-> IF IsDigitStr(paper_info.year) THEN StrToInt(paper_info.year) ELSE 0,
     journal  |-> paper_info.journal,
     abstract |-> clean_unicode_text(paper_info.abstract),
     url      |-> paper_info.url]

\* The loop body from the lookup to the first question put to the
\* operator (run.py 697-779).  year 0 stands for None.
Lookup(paper_info) ==
    /\ pc = "lookup"
    /\ lookups' = Append(lookups, filtered_titles[i])
    /\ LET md == StorageFormat(paper_info)
           url_hostname == extract_hostname(md.url)
           has_id == md.title # <<>> /\ md.year # 0
           id == generate_paper_id(md.title, IntToStr(md.year))
           journal_lower == Lower(md.journal)
       IN  /\ paper_metadata' = md
           /\ paper_id' = IF ~matches_avoid_domain(url_hostname, avoid_url_patterns)
                             /\ ~(md.title # <<>> /\ contains_non_english_chars(md.title))
                             /\ has_id
                          THEN id ELSE paper_id
           /\ IF matches_avoid_domain(url_hostname, avoid_url_patterns)
              THEN /\ url_filtered_count' = url_filtered_count + 1
                   /\ Outcome("PostFiltered-out", "avoid_url", <<>>)
                   /\ NextTitle
                   /\ UNCHANGED <<non_english_papers_count, keyword_filtered_count, prompts>>
              ELSE IF md.title # <<>> /\ contains_non_english_chars(md.title)
              THEN /\ non_english_papers_count' = non_english_papers_count + 1
                   /\ Outcome("PostFiltered-out", "non_english", <<>>)
                   /\ NextTitle
                   /\ UNCHANGED <<url_filtered_count, keyword_filtered_count, prompts>>
              ELSE IF has_id /\ id \in reviewed_paper_ids
              THEN /\ Outcome("PostFiltered-out", "reviewed", id)
                   /\ NextTitle
                   /\ UNCHANGED <<counters, prompts>>
              ELSE IF has_id /\ id \in unique_paper_ids
              THEN /\ Outcome("PostFiltered-out", "registered", id)
                   /\ NextTitle
                   /\ UNCHANGED <<counters, prompts>>
              ELSE IF md.journal # <<>> /\ journal_lower \in avoid_journals
              THEN /\ Outcome("PostFiltered-out", "avoid_journal", <<>>)
                   /\ NextTitle
                   /\ UNCHANGED <<counters, prompts>>
              ELSE /\ prompts' = Append(prompts, filtered_titles[i])
                   /\ pc' = IF /\ md.journal # <<>>
                               /\ journal_lower \notin avoid_journals
                               /\ journal_lower \notin DOMAIN journal_mapping
                            THEN "ask_avoid" ELSE "ask_add"
                   /\ UNCHANGED <<counters, outcomes, i>>
    /\ UNCHANGED <<files, now, registries, unique_titles, current_year, filtered_titles,
                   selected_papers, k, ids_at_load, reviewed_at_load, batches, stats,
                   migrations,
                   config, scraper, chromium, calls, dry_run, writes>>

\* GoogleScholarScraper.search_paper(title): what it returns, and whether it
\* took its except branch.  The exception may come before a result is parsed
\* (paper_info as initialised) or after the title, the url and the abstract
\* of the first result were stored and before journal and year are.
search_paper(title) ==
    {[paper_info |-> p, error |-> FALSE] : p \in LookupResults(title)}
    \cup {[paper_info |-> [title |-> title, year |-> <<>>, journal |-> <<>>,
                           abstract |-> <<>>, url |-> <<>>],
           error |-> TRUE],
          [paper_info |-> [title |-> TITLE_ac, year |-> <<>>, journal |-> <<>>,
                           abstract |-> ABSTRACT_x, url |-> URL_ok],
           error |-> TRUE]}

\* scraper.search_paper(title) returns one of its possible results
LookupStep ==
    /\ pc = "lookup"
    /\ \E r \in search_paper(filtered_titles[i]) :
          /\ Lookup(r.paper_info)
          /\ lookup_results' = Append(lookup_results, r)

\* "New journal ... Add to avoid list? (y/n)" (run.py 780-784)
AskAvoid(add_to_avoid) ==
    /\ pc = "ask_avoid"
    /\ IF Strip(Lower(add_to_avoid)) = STR_y
       THEN /\ avoid_journals' = avoid_journals \cup {Lower(paper_metadata.journal)}
            /\ Outcome("OperatorRejected", "journal_avoided", <<>>)
            /\ NextTitle
       ELSE /\ pc' = "ask_add"
            /\ UNCHANGED <<avoid_journals, outcomes, i>>
    /\ UNCHANGED <<files, now, avoid_keywords, avoid_url_patterns, unique_paper_ids,
                   journal_mapping, topics, reviewed_paper_ids, new_reviewed_papers,
                   counters, unique_titles, current_year, filtered_titles,
                   selected_papers, k, paper_metadata, paper_id, lookups, prompts,
                   ids_at_load, reviewed_at_load, batches, stats, migrations,
                   config, scraper, chromium, calls, dry_run, writes, lookup_results>>

\* "Add this paper to the database? (y/n)" (run.py 787-798)
AskAdd(add_paper) ==
    /\ pc = "ask_add"
    /\ IF Strip(Lower(add_paper)) # STR_y
       THEN LET fallback_year == IF paper_metadata.year # 0 THEN paper_metadata.year
                                 ELSE YearOf(now)
                rejected_paper_id ==
                    generate_paper_id(paper_metadata.title, IntToStr(fallback_year))
            IN  /\ IF paper_metadata.title # <<>>
                   THEN /\ reviewed_paper_ids' = reviewed_paper_ids \cup {rejected_paper_id}
                        /\ new_reviewed_papers' = new_reviewed_papers \cup {rejected_paper_id}
                        /\ Outcome("OperatorRejected", "declined", rejected_paper_id)
                   ELSE /\ UNCHANGED <<reviewed_paper_ids, new_reviewed_papers>>
                        /\ Outcome("OperatorRejected", "declined", <<>>)
                /\ NextTitle
       ELSE /\ pc' = "edit"
            /\ UNCHANGED <<reviewed_paper_ids, new_reviewed_papers, outcomes, i>>
    /\ UNCHANGED <<files, now, avoid_journals, avoid_keywords, avoid_url_patterns,
                   unique_paper_ids, journal_mapping, topics,
                   counters, unique_titles, current_year, filtered_titles,
                   selected_papers, k, paper_metadata, paper_id, lookups, prompts,
                   ids_at_load, reviewed_at_load, batches, stats, migrations,
                   config, scraper, chromium, calls, dry_run, writes, lookup_results>>

\* what the operator can type into manual_paper_metadata
NoEdit ==
    [is_ok |-> STR_n, title_input |-> <<>>, year_input |-> <<>>,
     journal_input |-> <<>>, url_input |-> <<>>, abstract_input |-> <<>>]

EditInputs ==
    { [NoEdit EXCEPT !.is_ok = STR_y],
      [NoEdit EXCEPT !.year_input = <<32>> \o YEAR_2025, !.journal_input = JOURNAL_Jn,
                     !.abstract_input = ABSTRACT_x],
      [NoEdit EXCEPT !.title_input = TITLE_ac],
      [NoEdit EXCEPT !.year_input = YEAR_ab],
      [NoEdit EXCEPT !.year_input = YEAR_sup2] }

\* manual_paper_metadata raises: int(year_input) on a year that isdigit()
\* accepts and int() rejects
manual_paper_metadata_raises(inp) ==
    /\ Strip(Lower(inp.is_ok)) \notin {<<121>>, <<121, 101, 115>>, <<>>}
    /\ Strip(inp.year_input) # <<>>
    /\ IsDigitStr(Strip(inp.year_input))
    /\ IntRaises(Strip(inp.year_input))

\* manual_paper_metadata(metadata) when it returns (the authors and the
\* citations, which the record here does not hold, are left out)
manual_paper_metadata(metadata, inp) ==
    IF Strip(Lower(inp.is_ok)) \in {<<121>>, <<121, 101, 115>>, <<>>} THEN metadata
    ELSE LET title_input   == Strip(inp.title_input)
             year_input    == Strip(inp.year_input)
             journal_input == Strip(inp.journal_input)
             url_input     == Strip(inp.url_input)
         IN  [title    |-> IF title_input # <<>> THEN title_input ELSE metadata.title,
              year     |-> IF year_input # <<>> /\ IsDigitStr(year_input)
                           THEN StrToInt(year_input) ELSE metadata.year,
              journal  |-> IF journal_input # <<>> THEN journal_input ELSE metadata.journal,
              abstract |-> IF inp.abstract_input # <<>>
                           THEN clean_unicode_text(inp.abstract_input)
                           ELSE metadata.abstract,
              url      |-> IF url_input # <<>> THEN url_input ELSE metadata.url]

\* the record given the id the loop held before the edit: the early id
WithId_Early(md, id) ==
    [id |-> paper_id, title |-> md.title, year |-> md.year, journal |-> md.journal,
     abstract |-> md.abstract, url |-> md.url]

\* the record with its id set: paper_metadata["id"] = paper_id
WithId(md, id) ==
    [id |-> id, title |-> md.title, year |-> md.year, journal |-> md.journal,
     abstract |-> md.abstract, url |-> md.url]

\* the exception leaves the loop and process_eml_files: nothing below the
\* loop runs (the loop body has no try)
Propagate == pc' = "raised"

\* the check against the ids loaded at the start of the batch alone
AlreadyRegistered_AtLoad(id) == id \in ids_at_load

\* "Check if paper already exists": paper_id in unique_paper_ids, the set
\* that holds the ids persisted earlier in the batch too
AlreadyRegistered(id) == id \in unique_paper_ids

\* "Review paper information": the metadata is edited, validated, given
\* its id and checked against the registries (run.py 801-832).
Edit(inp) ==
    /\ pc = "edit"
    /\ IF manual_paper_metadata_raises(inp)
       THEN /\ Propagate
            /\ Outcome("Raised", "ValueError", <<>>)
            /\ UNCHANGED <<paper_metadata, paper_id, i>>
       ELSE LET md == manual_paper_metadata(paper_metadata, inp)
                id == generate_paper_id(md.title, IntToStr(md.year))
                journal_lower == Lower(md.journal)
            IN  IF md.title = <<>> \/ md.year = 0 \/ md.journal = <<>> \/ md.abstract = <<>>
                   THEN /\ paper_metadata' = md
                        /\ paper_id' = paper_id
                        /\ Outcome("MissingFields", "missing", <<>>)
                        /\ NextTitle
                   ELSE IF AlreadyRegistered(id)
                   THEN /\ paper_metadata' = WithId(md, id)
                        /\ paper_id' = id
                        /\ Outcome("DuplicateId", "registered", id)
                        /\ NextTitle
                   ELSE IF journal_lower \in avoid_journals
                   THEN /\ paper_metadata' = WithId(md, id)
                        /\ paper_id' = id
                        /\ Outcome("PostFiltered-out", "avoid_journal", id)
                        /\ NextTitle
                   ELSE /\ paper_id' = id
                        /\ UNCHANGED <<outcomes, i>>
                        /\ IF journal_lower \in DOMAIN journal_mapping
                           THEN /\ paper_metadata' =
                                     [WithId(md, id) EXCEPT !.journal = journal_mapping[journal_lower]]
                                /\ pc' = "topic"
                           ELSE /\ paper_metadata' = WithId(md, id)
                                /\ pc' = "ask_normalize"
    /\ UNCHANGED <<files, now, registries, counters, unique_titles, current_year,
                   filtered_titles, selected_papers, k, lookups, prompts,
                   ids_at_load, reviewed_at_load, batches, stats, migrations,
                   config, scraper, chromium, calls, dry_run, writes, lookup_results>>

\* "New journal encountered. Should modify journal name ...? (y/n)"
\* (run.py 835-840)
AskNormalize(normalize, correct_name_input) ==
    /\ pc = "ask_normalize"
    /\ LET correct_name == Strip(correct_name_input)
           journal_lower == Lower(paper_metadata.journal)
       IN  IF Strip(Lower(normalize)) = STR_y /\ correct_name # <<>>
           THEN /\ journal_mapping' =
                     [x \in DOMAIN journal_mapping \cup {journal_lower} |->
                         IF x = journal_lower THEN correct_name ELSE journal_mapping[x]]
                /\ paper_metadata' = [paper_metadata EXCEPT !.journal = correct_name]
           ELSE UNCHANGED <<journal_mapping, paper_metadata>>
    /\ pc' = "topic"
    /\ UNCHANGED <<files, now, avoid_journals, avoid_keywords, avoid_url_patterns,
                   unique_paper_ids, topics, reviewed_paper_ids, new_reviewed_papers,
                   counters, unique_titles, current_year, filtered_titles,
                   selected_papers, k, i, paper_id, observed, stats, migrations,
                   config, scraper, chromium, calls, dry_run, writes, lookup_results>>

\* how the operator ends display_topics_for_selection:
\*   [kind |-> "number", n, text]  digits and Enter, n >= 1
\*   [kind |-> "new", n, text]     0, Enter, and a name typed at the prompt
\*   [kind |-> "search", n, text]  letters and Enter; when no topic equals
\*                                 the term, "y" to create it
TopicChoices ==
    {[kind |-> "number", n |-> n, text |-> <<>>] : n \in 1..MaxChoice}
    \cup {[kind |-> "new", n |-> 0, text |-> TOPIC_Hy \o <<32>>],
          [kind |-> "search", n |-> 0, text |-> TERM_WRF]}

\* the choice makes display_topics_for_selection return (any other key
\* sequence redisplays the list and waits for more keys)
TopicChoiceReturns(topics_, choice) ==
    \/ choice.kind = "number" /\ choice.n \in 1..Cardinality(topics_)
    \/ choice.kind = "new" /\ Strip(choice.text) # <<>>
    \/ choice.kind = "search" /\ choice.text # <<>>

\* display_topics_for_selection returning the entry typed, also when it
\* is the empty string
display_topics_for_selection(topics_, choice) ==
    LET topics_list == SortedStrs(topics_)
        exact_matches == SelectSeq(topics_list,
                            LAMBDA t : Lower(t) = Lower(choice.text))
    IN  IF choice.kind = "number" THEN topics_list[choice.n]
        ELSE IF choice.kind = "new" THEN Strip(choice.text)
        ELSE IF exact_matches # <<>> THEN exact_matches[1]
        ELSE choice.text

\* "Select topic" to the end of the loop body (run.py 843-857)
SelectTopic(choice) ==
    /\ pc = "topic"
    /\ TopicChoiceReturns(topics, choice)
    /\ LET topic == display_topics_for_selection(topics, choice)
           record == IF topic # <<>>
                     THEN [id |-> paper_metadata.id, title |-> paper_metadata.title,
                           year |-> paper_metadata.year, journal |-> paper_metadata.journal,
                           abstract |-> paper_metadata.abstract, url |-> paper_metadata.url,
                           topic |-> <<topic>>]
                     ELSE paper_metadata
       IN  /\ topics' = IF topic # <<>> THEN topics \cup {topic} ELSE topics
           /\ paper_metadata' = record
           /\ reviewed_paper_ids' = reviewed_paper_ids \cup {paper_id}
           /\ new_reviewed_papers' = new_reviewed_papers \cup {paper_id}
           /\ selected_papers' = Append(selected_papers, record)
           /\ unique_paper_ids' = unique_paper_ids \cup {paper_id}
           /\ Outcome("Persisted", "added", paper_id)
           /\ NextTitle
    /\ UNCHANGED <<files, now, avoid_journals, avoid_keywords, avoid_url_patterns,
                   journal_mapping, counters, unique_titles, current_year,
                   filtered_titles, k, paper_id, lookups, prompts,
                   ids_at_load, reviewed_at_load, batches, stats, migrations,
                   config, scraper, chromium, calls, dry_run, writes, lookup_results>>

\* input() or readchar.readkey() raises (EOFError on a closed terminal,
\* KeyboardInterrupt) while the operator is being asked
InputError ==
    /\ pc \in {"ask_avoid", "ask_add", "edit", "ask_normalize", "topic"}
    /\ Propagate
    /\ Outcome("Raised", "EOFError", <<>>)
    /\ UNCHANGED <<files, now, registries, counters, unique_titles, current_year,
                   filtered_titles, selected_papers, k, i, paper_metadata, paper_id,
                   lookups, prompts, ids_at_load, reviewed_at_load, batches, stats, migrations,
                   config, scraper, chromium, calls, dry_run, writes, lookup_results>>

\* f with f[key] set to value, key added to the domain when new
Put(f, key, value) ==
    [x \in DOMAIN f \cup {key} |-> IF x = key THEN value ELSE f[x]]

\* the year document taken for new whatever the file holds
load_json_database_Empty(year) == <<>>

\* load_json_database(year_file)["papers"]
load_json_database(year) == IF year \in DOMAIN f_json THEN f_json[year] ELSE <<>>

\* The save after the loop, the records of the batch put before those of
\* the document
FinalSave_NewFirst ==
    /\ pc = "save"
    /\ IF selected_papers # <<>>
       THEN LET year == YearOf(now)
                papers == selected_papers \o load_json_database(year)
            IN  /\ f_json' = Put(f_json, year, papers)
                /\ f_gz' = Put(f_gz, year, papers)
       ELSE UNCHANGED <<f_json, f_gz>>
    /\ f_avoid' = save_set_to_csv(avoid_journals)
    /\ f_paper_ids' = save_set_to_csv(unique_paper_ids)
    /\ f_journal' = save_journal_mapping(journal_mapping)
    /\ f_topics' = save_set_to_csv(topics)
    /\ f_reviewed' = IF new_reviewed_papers # {}
                     THEN save_reviewed_papers(new_reviewed_papers, f_reviewed, now)
                     ELSE f_reviewed
    /\ writes' = writes
                  \o (IF selected_papers # <<>> THEN <<"json", "json.gz">> ELSE <<>>)
                  \o <<"avoid_journals.csv", "unique_paper_id.csv",
                        "unique_journal.csv", "unique_topic.csv">>
                  \o (IF new_reviewed_papers # {} THEN <<"paper_reviewed.csv">> ELSE <<>>)
    /\ pc' = "done"
    /\ UNCHANGED <<f_keywords, f_urls, now, registries, counters, unique_titles,
                   current_year, filtered_titles, selected_papers, k, i,
                   paper_metadata, paper_id, lookups, prompts, outcomes,
                   ids_at_load, reviewed_at_load, batches, stats, migrations,
                   config, scraper, chromium, calls, dry_run, lookup_results>>

\* The save after the loop (run.py 859-890).
FinalSave ==
    /\ pc = "save"
    /\ IF selected_papers # <<>>
       THEN LET year == YearOf(now)
                papers == load_json_database(year) \o selected_papers
            IN  /\ f_json' = Put(f_json, year, papers)
                /\ f_gz' = Put(f_gz, year, papers)
       ELSE UNCHANGED <<f_json, f_gz>>
    /\ f_avoid' = save_set_to_csv(avoid_journals)
    /\ f_paper_ids' = save_set_to_csv(unique_paper_ids)
    /\ f_journal' = save_journal_mapping(journal_mapping)
    /\ f_topics' = save_set_to_csv(topics)
    /\ f_reviewed' = IF new_reviewed_papers # {}
                     THEN save_reviewed_papers(new_reviewed_papers, f_reviewed, now)
                     ELSE f_reviewed
    /\ writes' = writes
                  \o (IF selected_papers # <<>> THEN <<"json", "json.gz">> ELSE <<>>)
                  \o <<"avoid_journals.csv", "unique_paper_id.csv",
                        "unique_journal.csv", "unique_topic.csv">>
                  \o (IF new_reviewed_papers # {} THEN <<"paper_reviewed.csv">> ELSE <<>>)
    /\ pc' = "done"
    /\ UNCHANGED <<f_keywords, f_urls, now, registries, counters, unique_titles,
                   current_year, filtered_titles, selected_papers, k, i,
                   paper_metadata, paper_id, lookups, prompts, outcomes,
                   ids_at_load, reviewed_at_load, batches, stats, migrations,
                   config, scraper, chromium, calls, dry_run, lookup_results>>

\* TopicMigrator.run() writing the files whatever dry_run is
Migrate_AlwaysWrites(dry) ==
    /\ pc = "idle"
    /\ migrations' = migrations + 1
    /\ dry_run' = dry
    /\ LET r == ProcessDocs(DOMAIN f_json, f_json, config, MigrationStats)
       IN  /\ stats' = r.stats
           /\ f_json' = r.docs
           /\ f_topics' = update_topic_csv(f_topics, config, r.stats)
           /\ f_paper_ids' = update_paper_id_csv(f_paper_ids, r.stats)
           /\ f_gz' = [n \in DOMAIN f_gz \cup DOMAIN r.docs |->
                           IF n \in DOMAIN r.docs THEN r.docs[n] ELSE f_gz[n]]
    /\ UNCHANGED <<f_avoid, f_keywords, f_urls, f_journal, f_reviewed, now, pc,
                   registries, counters, unique_titles, current_year, filtered_titles,
                   selected_papers, k, i, paper_metadata, paper_id, observed,
                   config, scraper, chromium, calls, writes, lookup_results>>

\* TopicMigrator(dry_run).run(), between two batches
Migrate(dry) ==
    /\ pc = "idle"
    /\ migrations' = migrations + 1
    /\ dry_run' = dry
    /\ LET r == ProcessDocs(DOMAIN f_json, f_json, config, MigrationStats)
       IN  /\ stats' = r.stats
           /\ IF dry
              THEN UNCHANGED <<f_json, f_topics, f_paper_ids, f_gz>>
              ELSE /\ f_json' = r.docs
                   /\ f_topics' = update_topic_csv(f_topics, config, r.stats)
                   /\ f_paper_ids' = update_paper_id_csv(f_paper_ids, r.stats)
                   /\ f_gz' = [n \in DOMAIN f_gz \cup DOMAIN r.docs |->
                                   IF n \in DOMAIN r.docs THEN r.docs[n] ELSE f_gz[n]]
    /\ UNCHANGED <<f_avoid, f_keywords, f_urls, f_journal, f_reviewed, now, pc,
                   registries, counters, unique_titles, current_year, filtered_titles,
                   selected_papers, k, i, paper_metadata, paper_id, observed,
                   config, scraper, chromium, calls, writes, lookup_results>>

\* main() returns, or the exception ends the process: what the process
\* held in memory is gone, the files stay
Exit ==
    /\ pc \in {"done", "raised"}
    /\ pc' = "idle"
    /\ avoid_journals' = {} /\ avoid_keywords' = {} /\ avoid_url_patterns' = {}
    /\ unique_paper_ids' = {} /\ journal_mapping' = <<>> /\ topics' = {}
    /\ reviewed_paper_ids' = {} /\ new_reviewed_papers' = {}
    /\ non_english_papers_count' = 0 /\ keyword_filtered_count' = 0
    /\ url_filtered_count' = 0
    /\ unique_titles' = <<>> /\ current_year' = <<>> /\ filtered_titles' = <<>>
    /\ selected_papers' = <<>> /\ k' = 1 /\ i' = 1
    /\ paper_metadata' = NoMetadata /\ paper_id' = <<>>
    /\ lookups' = <<>> /\ prompts' = <<>> /\ outcomes' = <<>>
    /\ ids_at_load' = {} /\ reviewed_at_load' = {}
    /\ writes' = <<>>
    /\ lookup_results' = <<>>
    /\ UNCHANGED <<files, now, batches, stats, migrations, config, scraper, chromium, calls, dry_run>>

\* time passes between two runs
AdvanceClock ==
    /\ pc = "idle"
    /\ now + ClockStepDays * TicksPerDay <= MaxClockDays * TicksPerDay + 1
    /\ now' = now + ClockStepDays * TicksPerDay
    /\ UNCHANGED <<files, pc, registries, counters, unique_titles, current_year,
                   filtered_titles, selected_papers, k, i, paper_metadata, paper_id,
                   observed, stats, migrations, config, scraper, chromium, calls, dry_run, writes, lookup_results>>

\* the steps of one run of process_eml_files
BatchStep ==
    \/ PreFilterTitle
    \/ LookupStep
    \/ \E add_to_avoid \in {STR_y, STR_n} : AskAvoid(add_to_avoid)
    \/ \E add_paper \in {STR_y, STR_n} : AskAdd(add_paper)
    \/ \E inp \in EditInputs : Edit(inp)
    \/ \E normalize \in {STR_y, STR_n}, correct_name \in {<<>>, JOURNAL_JN, JOURNAL_Sp} :
          AskNormalize(normalize, correct_name)
    \/ \E choice \in TopicChoices : SelectTopic(choice)
    \/ InputError
    \/ FinalSave
    \/ Exit

\* one batch of alerts, of up to MaxTitles titles
Next ==
    \/ \E all_titles \in AlertBatches : batches < MaxBatches /\ StartBatch(all_titles)
    \/ BatchStep

Spec == Init /\ [][Next]_vars

\* the store over several runs: batches of single titles, the migrator and
\* the passing of time between them
InitRuns ==
    /\ FreshStore
    /\ now = FirstDay * TicksPerDay + 1
    /\ BatchIdle
    /\ pc = "idle"
    /\ ScraperStarted
    /\ config = ShippedConfig

NextRuns ==
    \/ \E all_titles \in RunBatches : batches < MaxRuns /\ StartBatch(all_titles)
    \/ BatchStep
    \/ \E dry \in BOOLEAN : migrations < MaxMigrations /\ Migrate(dry)
    \/ AdvanceClock

SpecRuns == InitRuns /\ [][NextRuns]_vars

(***************************************************************************)
(* Properties of the ingestion batch and of the store                      *)
(***************************************************************************)

RECURSIVE Collapse(_, _)
\* s in lower case, each run of whitespace between two words replaced by
\* one space and the whitespace at both ends dropped; started: a word has
\* been copied already
Collapse(s, started) ==
    IF s = <<>> THEN <<>>
    ELSE IF IsSpace(Head(s))
    THEN (IF started /\ Len(s) > 1 /\ ~IsSpace(s[2]) THEN <<32>> ELSE <<>>)
         \o Collapse(Tail(s), started)
    ELSE <<LowerChar(Head(s))>> \o Collapse(Tail(s), TRUE)

\* the normalized title of the identity of a paper
NormalizedTitle(title) == Collapse(title, FALSE)

\* the records of every year document of the store
StoredRecords == UNION {Range(f_json[year]) : year \in DOMAIN f_json}

\* the ids of the records of the store
StoredIds == {r.id : r \in StoredRecords}

\* the ids of the records accumulated by the batch
SelectedIds == {selected_papers[j].id : j \in DOMAIN selected_papers}

\* C1: duplicate suppression inside a batch.  No two records accumulated by
\* the batch have the same normalized (title, year); no id is the id of two
\* titles that reached Persisted; a title that reached Persisted has exactly
\* one record with its id in the batch, and the known-ID set has grown by
\* exactly that one entry for it: it is the set loaded plus one id for each
\* record of the batch.
C1_DuplicateSuppression ==
    /\ \A a, b \in DOMAIN selected_papers :
          ( /\ NormalizedTitle(selected_papers[a].title)
                  = NormalizedTitle(selected_papers[b].title)
            /\ selected_papers[a].year = selected_papers[b].year ) => a = b
    /\ \A a, b \in DOMAIN outcomes :
          ( /\ outcomes[a].state = "Persisted"
            /\ outcomes[b].state = "Persisted"
            /\ outcomes[a].id = outcomes[b].id ) => a = b
    /\ \A a \in DOMAIN outcomes :
          outcomes[a].state = "Persisted" =>
             /\ Cardinality({j \in DOMAIN selected_papers :
                               selected_papers[j].id = outcomes[a].id}) = 1
             /\ outcomes[a].id \notin ids_at_load
             /\ outcomes[a].id \in unique_paper_ids
    /\ unique_paper_ids = ids_at_load \cup SelectedIds
    /\ Cardinality(unique_paper_ids) = Cardinality(ids_at_load) + Len(selected_papers)

\* C1 witness: two titles of one batch resolved to the same id; one reached
\* Persisted and the other ended in DuplicateId.
C1_Witness ==
    \E a, b \in DOMAIN outcomes :
        /\ outcomes[a].state = "Persisted"
        /\ outcomes[b].state = "DuplicateId"
        /\ outcomes[a].id = outcomes[b].id
        /\ outcomes[a].title # outcomes[b].title

\* C2: failure isolation.  When the batch has ended, with its last title or
\* with an error, the final save has run with every record accumulated:
\* each record of the batch is in the year document.
C2_FailureIsolation ==
    pc \in {"done", "raised"} =>
        \A j \in DOMAIN selected_papers :
            selected_papers[j] \in Range(load_json_database(YearOf(now)))

\* C3: store consistency.  The ids of the records of the JSON documents are
\* the ids of unique_paper_id.csv, before, between and after the batches.
C3_StoreConsistency == StoredIds = Range(f_paper_ids)

\* C3 witness: two batches have completed and each has persisted a record.
C3_Witness ==
    /\ pc = "done"
    /\ batches = 2
    /\ selected_papers # <<>>
    /\ Cardinality(StoredIds) = 2

\* C4: id uniqueness.  No two records of the JSON documents, of one
\* document or of two, have the same id.
C4_IdUniqueness ==
    \A y1, y2 \in DOMAIN f_json :
        \A a \in DOMAIN f_json[y1], b \in DOMAIN f_json[y2] :
            f_json[y1][a].id = f_json[y2][b].id => (y1 = y2 /\ a = b)

\* C4 witness: a later batch, with the registries loaded from disk, has
\* met a paper whose id an earlier batch persisted, and has saved.
C4_Witness ==
    /\ pc = "done"
    /\ batches = 2
    /\ \E a \in DOMAIN outcomes :
          /\ outcomes[a].state = "DuplicateId"
          /\ outcomes[a].id \in ids_at_load
          /\ outcomes[a].id \in StoredIds

\* the record has a topic field holding a non-empty list of non-empty names
HasTopic(r) ==
    /\ "topic" \in DOMAIN r
    /\ r.topic # <<>>
    /\ \A n \in DOMAIN r.topic : r.topic[n] # <<>>

\* C5: every record that reaches Persisted (is appended to
\* selected_papers) has a topic field holding a non-empty list of
\* non-empty topic names, whatever the earlier batches and the migrator
\* have left in unique_topic.csv.
C5_PersistedHasTopic ==
    \A j \in DOMAIN selected_papers : HasTopic(selected_papers[j])

\* the title contains one of the avoid-keywords loaded
HasAvoidKeyword(title) ==
    \E keyword \in avoid_keywords : Contains(Lower(title), keyword)

\* the titles the filtering loop has handled
Handled == 1..(k - 1)

\* C6: the script check comes before the keyword check.  A title with a
\* character of a disallowed script that is rejected before the lookup is
\* rejected as non-English, also when it contains an avoid-keyword; the
\* keyword counter counts the titles handled that contain a keyword and no
\* such character, and the non-English counter every title handled that
\* has such a character (and the titles the lookup resolved to one).
C6_ScriptCheckFirst ==
    /\ \A j \in DOMAIN outcomes :
          ( /\ outcomes[j].state = "PreFiltered-out"
            /\ contains_non_english_chars(outcomes[j].title) )
          => outcomes[j].reason = "non_english"
    /\ keyword_filtered_count =
          Cardinality({j \in Handled : /\ ~contains_non_english_chars(unique_titles[j])
                                       /\ HasAvoidKeyword(unique_titles[j])})
    /\ non_english_papers_count =
          Cardinality({j \in Handled : contains_non_english_chars(unique_titles[j])})
          + Cardinality({j \in DOMAIN outcomes :
                            /\ outcomes[j].state = "PostFiltered-out"
                            /\ outcomes[j].reason = "non_english"})

\* C6 witness: a title with a CJK character and an avoid-keyword has been
\* rejected; the non-English counter stands at one, the keyword counter at
\* zero.
C6_Witness ==
    /\ \E j \in DOMAIN outcomes :
          /\ outcomes[j].state = "PreFiltered-out"
          /\ contains_non_english_chars(outcomes[j].title)
          /\ HasAvoidKeyword(outcomes[j].title)
    /\ non_english_papers_count = 1
    /\ keyword_filtered_count = 0

\* generate_paper_id(title, current_year) of the filtering loop
EarlyId(title) == generate_paper_id(title, current_year)

\* C7: a title whose early id is in the reviewed log as loaded (its
\* entries not expired) or in the known-ID set as loaded is never looked
\* up and never put before the operator.
C7_RejectedBeforeLookup ==
    \A j \in DOMAIN unique_titles :
        EarlyId(unique_titles[j]) \in reviewed_at_load \cup ids_at_load =>
            /\ unique_titles[j] \notin Range(lookups)
            /\ unique_titles[j] \notin Range(prompts)

\* C7 witness: a batch has run to its end with one title whose early id
\* was in the reviewed log and one whose early id was in the known-ID set
\* alone.
C7_Witness ==
    /\ pc = "done"
    /\ \E j \in DOMAIN unique_titles : EarlyId(unique_titles[j]) \in reviewed_at_load
    /\ \E j \in DOMAIN unique_titles :
          EarlyId(unique_titles[j]) \in ids_at_load \ reviewed_at_load

(***************************************************************************)
(* load_reviewed_papers on the files it can be given                       *)
(***************************************************************************)

MaxLogRows == 2     \* rows of paper_reviewed.csv


\* a row dated so many days before the first day of the clock
RowDated(id, days_before) ==
    [paper_id |-> id, date_added |-> [kind |-> "date", day |-> FirstDay - days_before]]

\* the rows a paper_reviewed.csv can hold, with the ids "#a" to "#f" and
\* " #g ": dated 10, 364, 365 and 400 days
\* back, with a date strptime rejects, and cut short before the date
LogRows ==
    { RowDated(<<35, 97>>, 10), RowDated(<<35, 98>>, 364), RowDated(<<35, 99>>, 365),
      RowDated(<<35, 100>>, 400), RowDated(<<32, 35, 103, 32>>, 10),
      [paper_id |-> <<35, 101>>, date_added |-> [kind |-> "text", day |-> 0]],
      [paper_id |-> <<35, 102>>, date_added |-> [kind |-> "none", day |-> 0]] }

\* the store with a reviewed log written by hand or by earlier runs, at
\* midnight of the first day or later that day
InitReviewed ==
    /\ HandKeptLists
    /\ f_paper_ids = <<>>
    /\ f_json = <<>>
    /\ f_gz = <<>>
    /\ f_reviewed \in SeqsUpTo(LogRows, MaxLogRows)
    /\ now \in {FirstDay * TicksPerDay, FirstDay * TicksPerDay + 1}
    /\ BatchIdle
    /\ pc = "idle"
    /\ ScraperStarted
    /\ config = ShippedConfig

\* reviewed_paper_ids = load_reviewed_papers(reviewed_path) (run.py 627)
LoadReviewed ==
    /\ pc = "idle"
    /\ reviewed_paper_ids' = load_reviewed_papers(f_reviewed, now)
    /\ f_reviewed' = load_reviewed_papers_file(f_reviewed)
    /\ pc' = "loaded"
    /\ UNCHANGED <<f_avoid, f_keywords, f_urls, f_paper_ids, f_journal, f_topics,
                   f_json, f_gz, now, avoid_journals, avoid_keywords,
                   avoid_url_patterns, unique_paper_ids, journal_mapping, topics,
                   new_reviewed_papers, counters, unique_titles, current_year,
                   filtered_titles, selected_papers, k, i, paper_metadata, paper_id,
                   observed, stats, migrations, config, scraper, chromium, calls, dry_run, writes, lookup_results>>

NextReviewed == LoadReviewed

SpecReviewed == InitReviewed /\ [][NextReviewed]_vars

\* the row has a date, and the date is not older than 365 days at now_
NotOlderThanAYear(row, now_) ==
    /\ row.date_added.kind = "date"
    /\ now_ - row.date_added.day * TicksPerDay <= 365 * TicksPerDay

\* C8: load_reviewed_papers returns exactly the paper ids of the rows of
\* the file whose date_added is not older than 365 days at load time
\* (a row dated 400 days back is left out, a row dated 10 days back is
\* in, a row whose date cannot be parsed is left out).
C8_ReviewedExpiry ==
    [][ (pc = "idle" /\ pc' = "loaded") =>
            reviewed_paper_ids' =
                {Strip(f_reviewed[j].paper_id) :
                    j \in {n \in DOMAIN f_reviewed : NotOlderThanAYear(f_reviewed[n], now)}}
      ]_vars

(***************************************************************************)
(* The registry tables written and read back                               *)
(***************************************************************************)

NAME_sp_padded == <<32, 115, 112, 32>>   \* " sp "
NAME_jn == <<106, 110>>                  \* "jn"
NAME_Jn_padded == <<74, 110, 32>>        \* "Jn "
NAME_JN_padded == <<32, 74, 78>>         \* " JN"

\* the names a registry set can hold
RegistryNames == {JOURNAL_sp, JOURNAL_Sp, NAME_sp_padded, NAME_jn}

\* the journal mappings a batch can hold
RegistryMappings ==
    { (NAME_jn :> JOURNAL_JN),
      (NAME_jn :> JOURNAL_JN) @@ (JOURNAL_sp :> JOURNAL_Sp),
      (JOURNAL_Jn :> JOURNAL_JN),
      (NAME_Jn_padded :> JOURNAL_JN),
      (NAME_jn :> NAME_JN_padded) }

\* a process holds a registry set and a journal mapping
HoldRegistry(data, mapping) ==
    /\ pc = "idle"
    /\ avoid_journals' = data
    /\ journal_mapping' = mapping
    /\ pc' = "held"
    /\ UNCHANGED <<files, now, avoid_keywords, avoid_url_patterns, unique_paper_ids,
                   topics, reviewed_paper_ids, new_reviewed_papers, counters,
                   unique_titles, current_year, filtered_titles, selected_papers,
                   k, i, paper_metadata, paper_id, observed, stats, migrations,
                   config, scraper, chromium, calls, dry_run, writes, lookup_results>>

\* save_set_to_csv(avoid_journals, ...), save_journal_mapping(journal_mapping, ...)
WriteRegistry ==
    /\ pc \in {"held", "reloaded"}
    /\ f_avoid' = save_set_to_csv(avoid_journals)
    /\ f_journal' = save_journal_mapping(journal_mapping)
    /\ pc' = "written"
    /\ UNCHANGED <<f_keywords, f_urls, f_paper_ids, f_topics, f_reviewed, f_json, f_gz,
                   now, registries, counters, unique_titles, current_year,
                   filtered_titles, selected_papers, k, i, paper_metadata, paper_id,
                   observed, stats, migrations, config, scraper, chromium, calls, dry_run, writes, lookup_results>>

\* load_csv_to_set(avoid_journal_path, ...), load_journal_mapping(...)
ReloadRegistry ==
    /\ pc = "written"
    /\ avoid_journals' = load_csv_to_set(f_avoid)
    /\ journal_mapping' = load_journal_mapping(f_journal)
    /\ pc' = "reloaded"
    /\ UNCHANGED <<files, now, avoid_keywords, avoid_url_patterns, unique_paper_ids,
                   topics, reviewed_paper_ids, new_reviewed_papers, counters,
                   unique_titles, current_year, filtered_titles, selected_papers,
                   k, i, paper_metadata, paper_id, observed, stats, migrations,
                   config, scraper, chromium, calls, dry_run, writes, lookup_results>>

InitRegistry ==
    /\ FreshStore
    /\ now = FirstDay * TicksPerDay + 1
    /\ BatchIdle
    /\ pc = "idle"
    /\ ScraperStarted
    /\ config = ShippedConfig

NextRegistry ==
    \/ \E data \in (SUBSET RegistryNames) \ {{}}, mapping \in RegistryMappings :
          HoldRegistry(data, mapping)
    \/ WriteRegistry
    \/ ReloadRegistry

SpecRegistry == InitRegistry /\ [][NextRegistry]_vars

\* the set and the mapping read back are the ones written
ReadBackEqual ==
    /\ avoid_journals' = avoid_journals
    /\ journal_mapping' = journal_mapping

\* the names held are in lower case without whitespace around them, the
\* correct names without whitespace around them
NamesNormalized ==
    /\ \A x \in avoid_journals : x = Lower(Strip(x))
    /\ \A x \in DOMAIN journal_mapping :
          /\ x = Lower(Strip(x))
          /\ journal_mapping[x] = Strip(journal_mapping[x])

\* C9 as stated: for any non-empty set of names and any mapping, names in
\* upper case or with whitespace around them included, writing the tables
\* and reading them back gives the set and the mapping that were written.
C9_RoundTrip ==
    [][ (pc = "written" /\ pc' = "reloaded") => ReadBackEqual ]_vars

\* C9 amended: writing the tables and reading them back gives the set and
\* the mapping that were written when the names written are in lower case
\* and without surrounding whitespace, and the correct names of the mapping
\* without surrounding whitespace.
C9_RoundTripNormalized ==
    [][ (pc = "written" /\ pc' = "reloaded" /\ NamesNormalized) => ReadBackEqual ]_vars

\* C9 witness: a non-empty set and mapping of normalized names have been
\* written and read back: the tables hold what is in memory.
C9_Witness ==
    /\ pc = "reloaded"
    /\ avoid_journals # {}
    /\ journal_mapping # <<>>
    /\ NamesNormalized
    /\ Range(f_avoid) = avoid_journals
    /\ Range(f_journal) = {<<x, journal_mapping[x]>> : x \in DOMAIN journal_mapping}

(***************************************************************************)
(* generate_paper_id on a title and its variants                           *)
(***************************************************************************)

MaxTitleLen == 5    \* the code points of a variant of a title

YEAR_2024 == <<50, 48, 50, 52>>
TITLE_Wide == <<201, 32, 98>>       \* "É b"

\* the letter in the other case (ASCII and Latin-1)
OtherCase(c) ==
    IF c \in 65..90 \/ (c \in 192..222 /\ c # 215) THEN c + 32
    ELSE IF c \in 97..122 \/ (c \in 224..254 /\ c # 247) THEN c - 32
    ELSE c

\* title with the whitespace character c put in after its first p code points
WithWhitespace(title, p, c) ==
    SubSeq(title, 1, p) \o <<c>> \o SubSeq(title, p + 1, Len(title))

\* after its first p code points the title has whitespace, or an end
AtWhitespace(title, p) ==
    IF p = 0 \/ p = Len(title) THEN TRUE
    ELSE IsSpace(title[p]) \/ IsSpace(title[p + 1])

\* a title arrives; unique_titles keeps it, filtered_titles holds its
\* variant in hand, paper_id the id of the variant
ReadTitle(title, year) ==
    /\ unique_titles = <<>>
    /\ unique_titles' = <<title>>
    /\ filtered_titles' = <<title>>
    /\ current_year' = year
    /\ paper_id' = generate_paper_id(title, year)
    /\ UNCHANGED <<files, now, pc, registries, counters, selected_papers, k, i,
                   paper_metadata, observed, stats, migrations,
                   config, scraper, chromium, calls, dry_run, writes, lookup_results>>

\* the same title with one letter in the other case
VaryCase(p) ==
    /\ filtered_titles # <<>>
    /\ p \in DOMAIN filtered_titles[1]
    /\ OtherCase(filtered_titles[1][p]) # filtered_titles[1][p]
    /\ LET variant == [filtered_titles[1] EXCEPT ![p] = OtherCase(@)]
       IN  /\ filtered_titles' = <<variant>>
           /\ paper_id' = generate_paper_id(variant, current_year)
    /\ UNCHANGED <<files, now, pc, registries, counters, unique_titles, current_year,
                   selected_papers, k, i, paper_metadata, observed, stats, migrations,
                   config, scraper, chromium, calls, dry_run, writes, lookup_results>>

\* the same title with more whitespace where it has some, or at an end
VaryWhitespace(p, c) ==
    /\ filtered_titles # <<>>
    /\ Len(filtered_titles[1]) < MaxTitleLen
    /\ p \in 0..Len(filtered_titles[1])
    /\ AtWhitespace(filtered_titles[1], p)
    /\ LET variant == WithWhitespace(filtered_titles[1], p, c)
       IN  /\ filtered_titles' = <<variant>>
           /\ paper_id' = generate_paper_id(variant, current_year)
    /\ UNCHANGED <<files, now, pc, registries, counters, unique_titles, current_year,
                   selected_papers, k, i, paper_metadata, observed, stats, migrations,
                   config, scraper, chromium, calls, dry_run, writes, lookup_results>>

InitId ==
    /\ FreshStore
    /\ now = FirstDay * TicksPerDay + 1
    /\ BatchIdle
    /\ pc = "idle"
    /\ ScraperStarted
    /\ config = ShippedConfig

NextId ==
    \/ \E title \in {TITLE_ac, TITLE_Wide, TITLE_d}, year \in {YEAR_2025, YEAR_2024} :
          ReadTitle(title, year)
    \/ \E p \in 1..MaxTitleLen : VaryCase(p)
    \/ \E p \in 0..MaxTitleLen, c \in {32, 9, 160} : VaryWhitespace(p, c)

SpecId == InitId /\ [][NextId]_vars

\* C10: the id of a title is the digest of its normalized form (lower
\* case, each whitespace run one space, no whitespace at the ends), "_"
\* and the year; so every variant of a title in letter case or in the
\* amount of whitespace has the id of the title, for the same year.
C10_IdOfNormalizedTitle ==
    unique_titles # <<>> =>
        /\ paper_id = Md5Hex(NormalizedTitle(filtered_titles[1]) \o <<95>> \o current_year)
        /\ paper_id = generate_paper_id(unique_titles[1], current_year)

\* C10 witness: a variant that differs from the title in the case of a
\* letter and in the amount of whitespace has been given its id.
C10_Witness ==
    /\ unique_titles = <<TITLE_ac>>
    /\ filtered_titles = << <<32, 65, 32, 9, 99>> >>
    /\ paper_id = generate_paper_id(TITLE_ac, current_year)

(***************************************************************************)
(* clean_unicode_text applied once and again                               *)
(***************************************************************************)

MaxTextLen == 3     \* the code points of a text to clean

\* the code points clean_unicode_text replaces
ReplacedCodePoints == (8208..8213) \cup {160, 8230}

\* the code points of the texts: a letter, what the replacements give,
\* and the code points replaced
TextCodePoints == {97, 45, 46} \cup ReplacedCodePoints

\* a title or an abstract arrives
ReadText(text) ==
    /\ pc = "idle"
    /\ unique_titles' = <<text>>
    /\ pc' = "read"
    /\ UNCHANGED <<files, now, registries, counters, current_year, filtered_titles,
                   selected_papers, k, i, paper_metadata, paper_id, observed, stats,
                   migrations,
                   config, scraper, chromium, calls, dry_run, writes, lookup_results>>

\* clean_unicode_text(text)
CleanText ==
    /\ pc = "read"
    /\ filtered_titles' = <<clean_unicode_text(unique_titles[1])>>
    /\ pc' = "cleaned"
    /\ UNCHANGED <<files, now, registries, counters, unique_titles, current_year,
                   selected_papers, k, i, paper_metadata, paper_id, observed, stats,
                   migrations,
                   config, scraper, chromium, calls, dry_run, writes, lookup_results>>

\* clean_unicode_text of the text already cleaned
CleanAgain ==
    /\ pc = "cleaned"
    /\ filtered_titles' = <<clean_unicode_text(filtered_titles[1])>>
    /\ pc' = "recleaned"
    /\ UNCHANGED <<files, now, registries, counters, unique_titles, current_year,
                   selected_papers, k, i, paper_metadata, paper_id, observed, stats,
                   migrations,
                   config, scraper, chromium, calls, dry_run, writes, lookup_results>>

InitClean ==
    /\ FreshStore
    /\ now = FirstDay * TicksPerDay + 1
    /\ BatchIdle
    /\ pc = "idle"
    /\ ScraperStarted
    /\ config = ShippedConfig

NextClean ==
    \/ \E text \in SeqsUpTo(TextCodePoints, MaxTextLen) : ReadText(text)
    \/ CleanText
    \/ CleanAgain

SpecClean == InitClean /\ [][NextClean]_vars

\* C11: clean_unicode_text is idempotent: cleaning a cleaned text gives the
\* cleaned text, and the cleaned text has none of the code points
\* U+2010..U+2015, U+00A0, U+2026.
C11_CleanIdempotent ==
    [][ (pc = "cleaned" /\ pc' = "recleaned") =>
            /\ filtered_titles' = filtered_titles
            /\ \A n \in DOMAIN filtered_titles[1] :
                  filtered_titles[1][n] \notin ReplacedCodePoints
      ]_vars

\* C11 witness: a text with an em dash, a no-break space and an ellipsis
\* has been cleaned twice.
C11_Witness ==
    /\ pc = "recleaned"
    /\ unique_titles = << <<8212, 160, 8230>> >>
    /\ filtered_titles = << <<45, 32, 46, 46, 46>> >>

(***************************************************************************)
(* migrate_topics.py under any configuration: SpecMigrate runs the         *)
(* migrator, dry or not, on a store of two records, with the delete set    *)
(* and the merge and rename mappings drawn from three topics.              *)
(***************************************************************************)

MaxTags == 2          \* topic tags on the first record
MaxMigrateRuns == 2   \* runs of the migrator

\* the topics the configurations and the records draw from
MigTopics == {TOPIC_wrf, TOPIC_wavelet, TOPIC_optimization}

\* a mapping with at most one source
Mappings == {<<>>} \cup {(s :> t) : s \in MigTopics, t \in MigTopics} 

\* TOPICS_TO_DELETE, TOPICS_TO_MERGE, TOPICS_TO_RENAME as anyone may edit
\* them
Configurations ==
    [delete : {{}} \cup {{t} : t \in MigTopics}, merge : Mappings, rename : Mappings]

\* the record of "d" (2025) as an earlier batch persisted it
RECORD_d ==
    [id |-> generate_paper_id(TITLE_d, YEAR_2025), title |-> TITLE_d, year |-> 2025,
     journal |-> JOURNAL_Jn, abstract |-> ABSTRACT_x, url |-> URL_ok,
     topic |-> <<TOPIC_wavelet>>]

InitMigrate ==
    /\ \E tags1 \in SeqsUpTo(MigTopics, MaxTags),
          tags2 \in {<<TOPIC_wavelet>>, <<TOPIC_optimization, TOPIC_wrf>>} :
          /\ f_json = (2025 :> <<[RECORD_ac EXCEPT !.topic = tags1],
                                 [RECORD_d EXCEPT !.topic = tags2]>>)
          /\ f_gz = f_json
    /\ f_paper_ids = SortedStrs({RECORD_ac.id, RECORD_d.id})
    /\ f_topics = SortedStrs(MigTopics)
    /\ f_avoid = <<JOURNAL_sp>> /\ f_keywords = <<KEYWORD_k>> /\ f_urls = <<PATTERN_bad>>
    /\ f_journal = <<>> /\ f_reviewed = <<>>
    /\ now = FirstDay * TicksPerDay + 1
    /\ BatchIdle
    /\ pc = "idle"
    /\ ScraperStarted
    /\ config \in Configurations

NextMigrate == \E dry \in BOOLEAN : migrations < MaxMigrateRuns /\ Migrate(dry)

SpecMigrate == InitMigrate /\ [][NextMigrate]_vars

\* a step of the migrator
MigrateStep == migrations' = migrations + 1

\* the record's topic tags intersect topics-to-delete
Doomed(p) == "topic" \in DOMAIN p /\ Range(p.topic) \cap config.delete # {}

\* the records of all documents
AllRecords(docs) == UNION {Range(docs[n]) : n \in DOMAIN docs}

\* the documents without the records to delete
Survivors(docs) ==
    [n \in DOMAIN docs |-> SelectSeq(docs[n], LAMBDA p : ~Doomed(p))]

\* C12: in a run of the migrator, for any configuration, a record whose
\* topic tags intersect topics-to-delete has its id recorded as deleted and,
\* unless the run is dry, is in no document afterwards, also when some of
\* its tags are merge or rename sources; the merge and rename counters are
\* those of the other records alone, and the documents hold the other
\* records as rewritten.
C12_DeletePrecedence ==
    [][ MigrateStep =>
          LET others == ProcessDocs(DOMAIN f_json, Survivors(f_json), config,
                                    MigrationStats)
          IN  /\ \A p \in AllRecords(f_json) :
                    Doomed(p) =>
                       /\ p.id \in stats'.deleted_paper_ids
                       /\ ~dry_run' => \A q \in AllRecords(f_json') : q.id # p.id
              /\ stats'.papers_merged = others.stats.papers_merged
              /\ stats'.papers_renamed = others.stats.papers_renamed
              /\ stats'.topics_merged = others.stats.topics_merged
              /\ stats'.topics_renamed = others.stats.topics_renamed
              /\ ~dry_run' => f_json' = others.docs
      ]_vars

\* C12 witness: a migration that was not dry has deleted a record for a
\* tag that is a topic to delete and a merge source at once, and merged
\* nothing.
C12_Witness ==
    /\ migrations = 1 /\ ~dry_run
    /\ stats.papers_deleted = 1
    /\ stats.topics_deleted \cap DOMAIN config.merge # {}
    /\ stats.papers_merged = 0
    /\ Cardinality(AllRecords(f_json)) = 1

\* the tag a tag is replaced by: the merge target of a merge source, the
\* rename target of a rename source that is no merge source, else the tag
Target(topic) ==
    IF topic \in DOMAIN config.merge THEN config.merge[topic]
    ELSE IF topic \in DOMAIN config.rename THEN config.rename[topic]
    ELSE topic

\* the first position in tags whose tag is replaced by t
FirstAt(tags, t) ==
    CHOOSE a \in DOMAIN tags :
        /\ Target(tags[a]) = t
        /\ \A b \in DOMAIN tags : Target(tags[b]) = t => a <= b

\* new is old rewritten: every tag replaced by its target, no tag twice,
\* in the order of first occurrence
Rewritten(old, new) ==
    /\ Range(new) = {Target(old[a]) : a \in DOMAIN old}
    /\ \A a, b \in DOMAIN new : a # b => new[a] # new[b]
    /\ \A a, b \in DOMAIN new : a < b => FirstAt(old, new[a]) < FirstAt(old, new[b])

\* C13: after a run of the migrator that is not dry, every surviving record
\* has each merge or rename source among its tags replaced by its target
\* and its other tags unchanged, holds no tag twice (two tags with the same
\* target, or a tag mapped onto a tag already there, give the target
\* once), and keeps the order of first occurrence.
C13_RewriteSurvivor ==
    [][ (MigrateStep /\ ~dry_run') =>
          LET before == Survivors(f_json)
          IN  /\ DOMAIN f_json' = DOMAIN before
              /\ \A n \in DOMAIN before :
                    /\ Len(f_json'[n]) = Len(before[n])
                    /\ \A j \in DOMAIN before[n] :
                          IF "topic" \in DOMAIN before[n][j]
                          THEN Rewritten(before[n][j].topic, f_json'[n][j].topic)
                          ELSE f_json'[n][j] = before[n][j]
      ]_vars

\* C13 witness: "wrf" merges into "optimization" and "wavelet" is renamed
\* to it; the first record held both and holds "optimization" once.
C13_Witness ==
    /\ migrations = 1 /\ ~dry_run
    /\ config.merge = (TOPIC_wrf :> TOPIC_optimization)
    /\ config.rename = (TOPIC_wavelet :> TOPIC_optimization)
    /\ stats.topics_merged = (<<TOPIC_wrf, TOPIC_optimization>> :> 1)
    /\ stats.topics_renamed = (<<TOPIC_wavelet, TOPIC_optimization>> :> 2)
    /\ f_json[2025][1].topic = <<TOPIC_optimization>>
    /\ f_json[2025][2].topic = <<TOPIC_optimization>>

\* the names a reader of unique_topic.csv that skips empty names finds
Names(rows) == {rows[a] : a \in {b \in DOMAIN rows : rows[b] # <<>>}}

\* every tag on a record of the documents
TagsOn(docs) ==
    UNION {Range(p.topic) : p \in {q \in AllRecords(docs) : "topic" \in DOMAIN q}}

\* the deleted topics, the merge sources and the rename sources
Removed == config.delete \cup DOMAIN config.merge \cup DOMAIN config.rename

\* the merge and the rename targets
Targets == Range(config.merge) \cup Range(config.rename)

\* C14 as stated: for any configuration, the names of the topic registry
\* written by update_topic_csv are (previous registry, merge and rename
\* targets, every tag on a surviving record) minus (deleted topics, merge
\* sources, rename sources).
C14_TopicRegistry ==
    [][ (MigrateStep /\ ~dry_run') =>
          Names(f_topics') =
              (Names(f_topics) \cup Targets \cup TagsOn(f_json')) \ Removed
      ]_vars

\* C14 amended: for any configuration, update_topic_csv writes, sorted, the
\* previous registry minus (deleted topics, merge sources, rename sources),
\* then the merge and rename targets and every tag on a surviving record
\* added to it, and one row with the empty name after them: a target or a
\* surviving tag stays in the registry also when it is a deleted topic or
\* a source.
C14_TopicRegistryRemoveFirst ==
    [][ (MigrateStep /\ ~dry_run') =>
          f_topics' =
              SortedStrs((Names(f_topics) \ Removed) \cup Targets
                            \cup TagsOn(f_json'))
              \o << <<>> >>
      ]_vars

\* C14 witness: "wrf" merges into "wavelet" and "wavelet" is renamed to
\* "optimization"; the registry written holds the merge target "wavelet",
\* a rename source.
C14_Witness ==
    /\ migrations = 1 /\ ~dry_run
    /\ config = [delete |-> {}, merge |-> (TOPIC_wrf :> TOPIC_wavelet),
                 rename |-> (TOPIC_wavelet :> TOPIC_optimization)]
    /\ f_topics = <<TOPIC_optimization, TOPIC_wavelet, <<>> >>

\* C15: a dry run of the migrator leaves every JSON document,
\* unique_topic.csv, unique_paper_id.csv, every compressed bundle and every
\* other file as it was, and the counts it computed are the counts the real
\* run that follows it computes.
C15_DryRun ==
    [][ MigrateStep =>
          /\ dry_run' => UNCHANGED files
          /\ (migrations > 0 /\ dry_run /\ ~dry_run') => stats' = stats
      ]_vars

\* C15 witness: a dry run has counted one record to delete and one to
\* merge; both records are in the document and the registry has no closing
\* empty row.
C15_Witness ==
    /\ migrations = 1 /\ dry_run
    /\ stats.papers_deleted = 1 /\ stats.papers_merged = 1
    /\ Len(f_json[2025]) = 2
    /\ f_topics = SortedStrs(MigTopics)
    /\ f_paper_ids = SortedStrs({RECORD_ac.id, RECORD_d.id})

\* the ids of the records of the documents
DocumentIds(docs) == {p.id : p \in AllRecords(docs)}

\* C16: after a run of the migrator that is not dry, the id of every
\* record the delete step dropped is absent from unique_paper_id.csv, the id
\* of every surviving record that was in the registry is still in it, and
\* if the ids of the documents were the ids of the registry before the run
\* they are so after it.
C16_IdRegistryFollowsDocuments ==
    [][ (MigrateStep /\ ~dry_run') =>
          /\ \A p \in AllRecords(f_json) :
                IF Doomed(p) THEN p.id \notin Names(f_paper_ids')
                ELSE p.id \in Names(f_paper_ids) => p.id \in Names(f_paper_ids')
          /\ DocumentIds(f_json) = Names(f_paper_ids)
                => DocumentIds(f_json') = Names(f_paper_ids')
      ]_vars

\* C16 witness: a run that was not dry has deleted the record of "a c"; the
\* document and the registry hold the id of "d" alone.
C16_Witness ==
    /\ migrations = 1 /\ ~dry_run
    /\ stats.deleted_paper_ids = {RECORD_ac.id}
    /\ DocumentIds(f_json) = {RECORD_d.id}
    /\ f_paper_ids = <<RECORD_d.id>>

(***************************************************************************)
(* The lookup, the authoritative id and the save of a batch (Spec)         *)
(***************************************************************************)

\* a step in which scraper.search_paper is called
LookupCalled == Len(lookups') = Len(lookups) + 1

\* the paper_info search_paper starts from: the title, every field empty
EmptyResult(title) ==
    [title |-> title, year |-> <<>>, journal |-> <<>>, abstract |-> <<>>, url |-> <<>>]

\* the call of search_paper is the one call for title i, it does not raise,
\* and the loop goes on with the title: it is put to the operator or gets
\* its outcome, and the next title or the save follows
LookupOnceAndOn ==
    /\ LookupCalled =>
          /\ Len(lookups') = i
          /\ lookups'[i] = filtered_titles[i]
          /\ filtered_titles[i] \notin Range(lookups)
          /\ pc' \in {"lookup", "save", "ask_avoid", "ask_add"}
          /\ \/ prompts' = Append(prompts, filtered_titles[i])
             \/ /\ Len(outcomes') = Len(outcomes) + 1
                /\ outcomes'[Len(outcomes')].title = filtered_titles[i]
    /\ (pc # "save" /\ pc' = "save") => lookups' = filtered_titles

\* a lookup that took its except branch returned the title as passed and
\* every other field empty
FailedLookupIsEmpty ==
    LookupCalled =>
       LET r == lookup_results'[Len(lookup_results')]
       IN  r.error => r.paper_info = EmptyResult(filtered_titles[i])

\* C17: for every title that passes the pre-lookup filter search_paper is
\* called exactly once in the batch; a lookup that fails internally returns
\* the original title with empty fields and does not raise, and the batch
\* goes on with that title and the ones after it.
C17_LookupOnceEmptyOnFailure ==
    [][LookupOnceAndOn /\ FailedLookupIsEmpty]_vars

\* make_id of the title and the year the record holds
ConfirmedId(record) == generate_paper_id(record.title, IntToStr(record.year))

\* C18: the id stored on every persisted record, in the batch and in the
\* documents, is make_id of the title and the year the record holds after
\* the operator's edits; a record is added to the batch only if this id is
\* not in the known-ID set, and the known-ID set takes this id.
C18_AuthoritativeId ==
    [][ /\ \A j \in DOMAIN selected_papers' :
              selected_papers'[j].id = ConfirmedId(selected_papers'[j])
        /\ \A r \in AllRecords(f_json') : r.id = ConfirmedId(r)
        /\ Len(selected_papers') = Len(selected_papers) + 1 =>
              LET record == selected_papers'[Len(selected_papers')]
              IN  /\ ConfirmedId(record) \notin unique_paper_ids
                  /\ ConfirmedId(record) \in unique_paper_ids'
      ]_vars

\* C18 witness: a title reached Persisted with an id that is not the id of
\* the alert title in the current year, the confirmed title being another
\* title; the record is in the year document under the id of its own title.
C18_Witness ==
    /\ pc = "done"
    /\ \E a \in DOMAIN outcomes :
          /\ outcomes[a].state = "Persisted"
          /\ outcomes[a].id # generate_paper_id(outcomes[a].title, current_year)
          /\ \E r \in AllRecords(f_json) :
                /\ r.id = outcomes[a].id
                /\ NormalizedTitle(r.title) # NormalizedTitle(outcomes[a].title)
                /\ r.id = ConfirmedId(r)

\* the registry tables, the year documents and the bundles
SavedFiles == <<f_avoid, f_paper_ids, f_journal, f_topics, f_json, f_gz>>

\* how often the save calls of the batch wrote the file
Times(file) == Cardinality({n \in DOMAIN writes : writes[n] = file})

\* the rows are the elements of S, each once, in ascending order
WrittenInFull(rows, S) ==
    /\ Range(rows) = S
    /\ \A a, b \in DOMAIN rows : a < b => StrLess(rows[a], rows[b])

\* the rows are the items of the mapping, each once, in ascending order of
\* the key
MappingWrittenInFull(rows, mapping) ==
    /\ {rows[a][1] : a \in DOMAIN rows} = DOMAIN mapping
    /\ \A a \in DOMAIN rows : rows[a][2] = mapping[rows[a][1]]
    /\ \A a, b \in DOMAIN rows : a < b => StrLess(rows[a][1], rows[b][1])

\* no step of the batch before the save writes a table, a document or a
\* bundle
NoWriteInLoop == (pc \notin {"idle", "save"}) => UNCHANGED SavedFiles

\* the save writes each of the four tables once, in full and sorted
TablesWrittenOnce ==
    (pc = "save" /\ pc' = "done") =>
       /\ Times("avoid_journals.csv")' = 1 /\ Times("unique_paper_id.csv")' = 1
       /\ Times("unique_journal.csv")' = 1 /\ Times("unique_topic.csv")' = 1
       /\ WrittenInFull(f_avoid', avoid_journals)
       /\ WrittenInFull(f_paper_ids', unique_paper_ids)
       /\ MappingWrittenInFull(f_journal', journal_mapping)
       /\ WrittenInFull(f_topics', topics)

\* C19 as stated: during the loop over the titles no table, document or
\* bundle is written; after the last title the year document, the four
\* registry tables and the compressed copy are each written exactly once,
\* the tables in full and sorted by key.
C19_SingleWrite ==
    [][ /\ NoWriteInLoop
        /\ TablesWrittenOnce
        /\ (pc = "save" /\ pc' = "done") =>
               /\ Times("json")' = 1 /\ Times("json.gz")' = 1
      ]_vars

\* C19 amended: as stated for the four tables; the year document and its
\* compressed copy are written exactly once, the document holding the
\* records it held followed by those of the batch, when the batch selected
\* at least one record, and are not written at all when it selected none.
C19_SingleWriteIfSelected ==
    [][ /\ NoWriteInLoop
        /\ TablesWrittenOnce
        /\ (pc = "save" /\ pc' = "done") =>
               IF selected_papers # <<>>
               THEN /\ Times("json")' = 1 /\ Times("json.gz")' = 1
                    /\ f_json'[YearOf(now)] =
                          (IF YearOf(now) \in DOMAIN f_json
                           THEN f_json[YearOf(now)] ELSE <<>>) \o selected_papers
                    /\ f_gz'[YearOf(now)] = f_json'[YearOf(now)]
               ELSE /\ Times("json")' = 0 /\ Times("json.gz")' = 0
                    /\ UNCHANGED <<f_json, f_gz>>
      ]_vars

\* C19 witness: a batch that looked a title up and selected no record has
\* saved: the four tables were written, the year document and the bundle
\* were not.
C19_Witness ==
    /\ pc = "done"
    /\ lookups # <<>>
    /\ selected_papers = <<>>
    /\ Times("unique_paper_id.csv") = 1 /\ Times("unique_topic.csv") = 1
    /\ Times("json") = 0 /\ Times("json.gz") = 0

\* a step in which the title ends in MissingFields
MissingFieldsStep ==
    /\ Len(outcomes') = Len(outcomes) + 1
    /\ outcomes'[Len(outcomes')].state = "MissingFields"

\* the ids computed for title i before the edit: the id of the alert title
\* in the current year and, where the lookup gave title and year, the id of
\* these
EarlyIds ==
    {EarlyId(filtered_titles[i])}
    \cup (IF paper_metadata.title # <<>> /\ paper_metadata.year # 0
          THEN {generate_paper_id(paper_metadata.title, IntToStr(paper_metadata.year))}
          ELSE {})

\* the record of a title that ends in MissingFields is not added to the
\* batch
MissingFieldsDropped == MissingFieldsStep => selected_papers' = selected_papers

\* C20: a record for which, after the operator's edits, title, year,
\* journal or abstract is empty is dropped, and its early id is added to
\* the reviewed log of the session.
C20_MissingFieldsReviewed ==
    [][ /\ MissingFieldsDropped
        /\ MissingFieldsStep =>
              \E id \in EarlyIds :
                  id \in reviewed_paper_ids' /\ id \in new_reviewed_papers'
      ]_vars

(***************************************************************************)
(* Rejections, the avoid list and the reviewed log of a batch              *)
(***************************************************************************)

\* a step in which a candidate is rejected
RejectionStep ==
    /\ Len(outcomes') = Len(outcomes) + 1
    /\ outcomes'[Len(outcomes')].state \in
          {"PreFiltered-out", "PostFiltered-out", "OperatorRejected",
           "MissingFields", "DuplicateId"}

\* the reasons for which the code keeps a counter
CountedReasons == {"non_english", "keyword", "avoid_url"}

\* the counters process_eml_files keeps, added up
CounterTotal == non_english_papers_count + keyword_filtered_count + url_filtered_count

\* no rejection stops the batch: the filtering loop or the processing loop
\* goes on with the next title, or the save follows the last one
RejectionNotFatal == RejectionStep => pc' \in {"prefilter", "lookup", "save"}

\* a rejection for a counted reason adds one to the counter of the reason,
\* a rejection for another reason leaves every counter as it was
CountedWhereKept ==
    RejectionStep =>
       IF outcomes'[Len(outcomes')].reason \in CountedReasons
       THEN CounterTotal' = CounterTotal + 1
       ELSE UNCHANGED counters

\* C21: every rejection of a candidate in the batch, whatever its reason,
\* adds one to a counter, and none stops the batch: the next title is
\* processed.
C21_RejectionsCounted ==
    [][ /\ RejectionNotFatal
        /\ RejectionStep => CounterTotal' = CounterTotal + 1
      ]_vars

(***************************************************************************)
(* main() and the GoogleScholarScraper: SpecMain is one run of main, the   *)
(* batch of Spec between initialize() and close().                         *)
(***************************************************************************)

\* GoogleScholarScraper.initialize() without the test of initialized
initialize_Again ==
    /\ chromium' = Append(chromium, "running")
    /\ scraper' = [browser |-> Len(chromium) + 1, initialized |-> TRUE]

\* GoogleScholarScraper.initialize() when uc.start returns: a browser is
\* started unless the scraper is initialized
initialize ==
    IF scraper.initialized
    THEN UNCHANGED <<scraper, chromium>>
    ELSE /\ chromium' = Append(chromium, "running")
         /\ scraper' = [browser |-> Len(chromium) + 1, initialized |-> TRUE]

\* GoogleScholarScraper.close() that returns without waiting for the
\* process
close_NoWait ==
    IF scraper.browser # 0 /\ scraper.initialized
    THEN /\ UNCHANGED chromium
         /\ scraper' = [browser |-> 0, initialized |-> FALSE]
    ELSE UNCHANGED <<scraper, chromium>>

\* GoogleScholarScraper.close(): nothing without a browser; else the
\* browser is asked to close, proc.wait() returns when the process has
\* exited, and the handle is dropped
close ==
    IF scraper.browser # 0 /\ scraper.initialized
    THEN /\ chromium' = [chromium EXCEPT ![scraper.browser] = "exited"]
         /\ scraper' = [browser |-> 0, initialized |-> FALSE]
    ELSE UNCHANGED <<scraper, chromium>>

\* the tuple of everything but pc, the scraper and its processes
BatchState ==
    <<files, now, registries, counters, unique_titles, current_year, filtered_titles,
      selected_papers, k, i, paper_metadata, paper_id, observed, stats, migrations,
      config, dry_run, writes, lookup_results>>

\* main: "await scraper.initialize()"; uc.start starts the browser or
\* raises, and then the finally clause is next
MainInitialize(starts) ==
    /\ pc = "main"
    /\ IF starts
       THEN /\ initialize
            /\ calls' = Append(calls, "initialize")
            /\ pc' = "idle"
       ELSE /\ UNCHANGED <<scraper, chromium, calls>>
            /\ pc' = "finally"
    /\ UNCHANGED BatchState

\* main: the finally clause, "await scraper.close()", after
\* process_eml_files returned or raised, or initialize() raised
MainFinally ==
    /\ pc \in {"done", "raised", "finally"}
    /\ close
    /\ calls' = Append(calls, "close")
    /\ pc' = "exited"
    /\ UNCHANGED BatchState

InitMain ==
    /\ FreshStore \/ EarlierStore
    /\ now = FirstDay * TicksPerDay + 1
    /\ BatchIdle
    /\ config = ShippedConfig
    /\ pc = "main"
    /\ scraper = [browser |-> 0, initialized |-> FALSE]
    /\ chromium = <<>>
    /\ calls = <<>>

NextMain ==
    \/ \E starts \in BOOLEAN : MainInitialize(starts)
    \/ \E all_titles \in AlertBatches : batches < MaxBatches /\ StartBatch(all_titles)
    \/ PreFilterTitle
    \/ LookupStep
    \/ \E add_to_avoid \in {STR_y, STR_n} : AskAvoid(add_to_avoid)
    \/ \E add_paper \in {STR_y, STR_n} : AskAdd(add_paper)
    \/ \E inp \in EditInputs : Edit(inp)
    \/ \E normalize \in {STR_y, STR_n}, correct_name \in {<<>>, JOURNAL_JN, JOURNAL_Sp} :
          AskNormalize(normalize, correct_name)
    \/ \E choice \in TopicChoices : SelectTopic(choice)
    \/ InputError
    \/ FinalSave
    \/ MainFinally

SpecMain == InitMain /\ [][NextMain]_vars

\* C22: in a run of main the browser, once started, is released exactly
\* once, after the batch has ended, be it that process_eml_files returned or
\* that it raised: a browser process exits in the step that follows the end
\* of the batch and in no other, nothing but the release follows the end of
\* the batch, and when main has ended every process started has exited and
\* the scraper holds no browser; when no browser was started the release
\* changes nothing.
C22_BrowserReleasedOnce ==
    [][ /\ \A n \in DOMAIN chromium :
              (chromium[n] = "running" /\ chromium'[n] = "exited") =>
                  pc \in {"done", "raised"} /\ pc' = "exited"
        /\ pc \in {"done", "raised", "finally"} => pc' = "exited"
        /\ pc' = "exited" =>
              /\ \A n \in DOMAIN chromium' : chromium'[n] = "exited"
              /\ Len(chromium') <= 1
              /\ scraper' = [browser |-> 0, initialized |-> FALSE]
              /\ Cardinality({n \in DOMAIN calls' : calls'[n] = "close"}) = 1
        /\ (pc = "finally" /\ pc' = "exited") =>
              /\ chromium = <<>>
              /\ UNCHANGED <<scraper, chromium>>
      ]_vars

\* C22 witness: main has ended after process_eml_files raised; the browser
\* it had started has exited.
C22_Witness ==
    /\ pc = "exited"
    /\ chromium = <<"exited">>
    /\ calls = <<"initialize", "close">>
    /\ \E a \in DOMAIN outcomes : outcomes[a].state = "Raised"

(***************************************************************************)
(* load_csv_to_set over the bytes of the table: the encoding fallback      *)
(***************************************************************************)

\* number of bytes the text layer decodes at a time (8192 in CPython; the
\* rows of the chunks already decoded reach the loop before the next chunk
\* is decoded)
CHUNK_SIZE == 4

MaxFileLines == 3

\* lines of a one-column table after its header, as bytes: "a", "C", "cé"
\* written in utf-8, "dé" written in latin-1, and a blank line
LINE_a == <<97>>
LINE_C == <<67>>
LINE_ce_utf8 == <<99, 195, 169>>
LINE_de_latin1 == <<100, 233>>

RawLines == {LINE_a, LINE_C, LINE_ce_utf8, LINE_de_latin1, <<>>}

RawFiles == SeqsUpTo(RawLines, MaxFileLines)

RECURSIVE FileBytes(_)
\* the bytes of the lines, each closed by a line feed
FileBytes(lines) ==
    IF lines = <<>> THEN <<>>
    ELSE Append(Head(lines), 10) \o FileBytes(Tail(lines))

\* the offset at which line j of the file ends
LineEnd(lines, j) == Len(FileBytes(SubSeq(lines, 1, j)))

\* the number of continuation bytes that follow a utf-8 lead byte, -1 for
\* a byte that starts no sequence
Utf8Need(b) ==
    IF b < 128 THEN 0
    ELSE IF b \in 194..223 THEN 1
    ELSE IF b \in 224..239 THEN 2
    ELSE IF b \in 240..244 THEN 3
    ELSE -1

RECURSIVE Utf8Error(_, _)
\* the offset of the byte at which decoding utf-8 from offset p on raises
\* UnicodeDecodeError, 0 when the bytes decode
Utf8Error(bytes, p) ==
    IF p > Len(bytes) THEN 0
    ELSE LET need == Utf8Need(bytes[p])
             bad  == {q \in (p + 1)..(p + need) :
                         IF q > Len(bytes) THEN TRUE ELSE bytes[q] \notin 128..191}
         IN  IF need = -1 THEN p
             ELSE IF bad = {} THEN Utf8Error(bytes, p + need + 1)
             ELSE CHOOSE q \in bad : \A r \in bad : q <= r

RECURSIVE Utf8Text(_)
\* the code points of bytes that decode as utf-8
Utf8Text(bytes) ==
    IF bytes = <<>> THEN <<>>
    ELSE LET need == Utf8Need(bytes[1])
             cp == IF need = 0 THEN bytes[1]
                   ELSE IF need = 1 THEN (bytes[1] - 192) * 64 + (bytes[2] - 128)
                   ELSE IF need = 2
                        THEN (bytes[1] - 224) * 4096 + (bytes[2] - 128) * 64
                             + (bytes[3] - 128)
                   ELSE (bytes[1] - 240) * 262144 + (bytes[2] - 128) * 4096
                        + (bytes[3] - 128) * 64 + (bytes[4] - 128)
         IN  <<cp>> \o Utf8Text(SubSeq(bytes, need + 2, Len(bytes)))

\* the bytes cp1252 maps to no character
Cp1252Undefined == {129, 141, 143, 144, 157}

encodings == <<"utf-8", "latin-1", "cp1252">>

\* the offset of the byte at which decoding raises UnicodeDecodeError, 0
\* when the encoding decodes the bytes; latin-1 decodes every byte
DecodeError(bytes, encoding) ==
    IF encoding = "utf-8" THEN Utf8Error(bytes, 1)
    ELSE IF encoding = "latin-1" THEN 0
    ELSE LET bad == {q \in DOMAIN bytes : bytes[q] \in Cp1252Undefined}
         IN  IF bad = {} THEN 0 ELSE CHOOSE q \in bad : \A r \in bad : q <= r

\* the text of a line that decodes; latin-1 maps a byte to the code point
\* of the same number, and so does cp1252 outside 128..159
Decode(line, encoding) ==
    IF encoding = "utf-8" THEN Utf8Text(line) ELSE line

\* the rows of the table as one encoding decodes them, stripped and in lower
\* case, without the blank lines
RowsAs(lines, encoding) ==
    {Lower(Strip(Decode(lines[j], encoding))) :
        j \in {n \in DOMAIN lines : lines[n] # <<>>}}

\* one pass of the loop body under one encoding: the values added to result
\* before the pass ends, and how it ends.  The lines of the chunks decoded
\* before the chunk with the undecodable byte are read; csv_error is the
\* line at which the reader raises an exception that is no
\* UnicodeDecodeError (0: none does).
ReadAttempt(lines, encoding, csv_error) ==
    LET bytes == FileBytes(lines)
        d == DecodeError(bytes, encoding)
        decoded == IF d = 0 THEN Len(bytes)
                   ELSE ((d - 1) \div CHUNK_SIZE) * CHUNK_SIZE
        readable == {j \in DOMAIN lines : LineEnd(lines, j) <= decoded}
        added == {j \in readable :
                     /\ csv_error = 0 \/ j < csv_error
                     /\ lines[j] # <<>>}
    IN  [raised |-> IF csv_error \in readable THEN "Exception"
                    ELSE IF d # 0 THEN "UnicodeDecodeError"
                    ELSE "none",
         values |-> {Lower(Strip(Decode(lines[j], encoding))) : j \in added}]

RECURSIVE load_csv_to_set_encodings(_, _, _, _)
\* load_csv_to_set from encoding n on: result is the set built so far, and
\* it is kept across the attempts; the table is replaced by its header when
\* the last attempt ends in an exception that is no UnicodeDecodeError
load_csv_to_set_encodings(lines, n, result, csv_error) ==
    IF n > Len(encodings) THEN [result |-> result, file |-> lines]
    ELSE LET attempt == ReadAttempt(lines, encodings[n], csv_error)
             filled == result \cup attempt.values
         IN  IF attempt.raised = "none"
             THEN [result |-> filled, file |-> lines]
             ELSE IF attempt.raised = "Exception" /\ n = Len(encodings)
             THEN [result |-> filled, file |-> <<>>]
             ELSE load_csv_to_set_encodings(lines, n + 1, filled, csv_error)

\* avoid_journals = load_csv_to_set(avoid_journal_path, 'name'), the table
\* being lines of bytes
LoadTable(csv_error) ==
    /\ pc = "idle"
    /\ csv_error \in 0..Len(f_avoid)
    /\ LET loaded == load_csv_to_set_encodings(f_avoid, 1, {}, csv_error)
       IN  /\ avoid_journals' = loaded.result
           /\ f_avoid' = loaded.file
    /\ pc' = "loaded"
    /\ UNCHANGED <<f_keywords, f_urls, f_paper_ids, f_journal, f_topics, f_reviewed,
                   f_json, f_gz, now, avoid_keywords, avoid_url_patterns,
                   unique_paper_ids, journal_mapping, topics, reviewed_paper_ids,
                   new_reviewed_papers, counters, unique_titles, current_year,
                   filtered_titles, selected_papers, k, i, paper_metadata, paper_id,
                   observed, stats, migrations,
                   config, scraper, chromium, calls, dry_run, writes, lookup_results>>

InitLoad ==
    /\ f_avoid \in RawFiles
    /\ f_keywords = <<KEYWORD_k>>
    /\ f_urls = <<PATTERN_bad>>
    /\ f_journal = <<>>
    /\ f_topics = <<TOPIC_wavelet, TOPIC_wrf>>
    /\ f_paper_ids = <<>>
    /\ f_reviewed = <<>>
    /\ f_json = <<>>
    /\ f_gz = <<>>
    /\ now = FirstDay * TicksPerDay + 1
    /\ BatchIdle
    /\ pc = "idle"
    /\ ScraperStarted
    /\ config = ShippedConfig

NextLoad == \E csv_error \in 0..MaxFileLines : LoadTable(csv_error)

SpecLoad == InitLoad /\ [][NextLoad]_vars

\* the first encoding of the list that decodes the whole table, 0 when none
\* does
Winner(lines) ==
    LET ok == {n \in DOMAIN encodings : DecodeError(FileBytes(lines), encodings[n]) = 0}
    IN  IF ok = {} THEN 0 ELSE CHOOSE n \in ok : \A m \in ok : n <= m

\* C23: load_csv_to_set tries utf-8, latin-1, cp1252 in that order and the
\* first encoding that decodes the whole file wins: the set returned for a
\* table it leaves in place holds the rows as decoded by that encoding and
\* nothing from an earlier, failed attempt; a table no encoding decodes is
\* replaced by its header alone and the set returned is empty.
C23_FirstSuccessWins ==
    [][ (pc = "idle" /\ pc' = "loaded") =>
            /\ (Winner(f_avoid) # 0 /\ f_avoid' = f_avoid) =>
                   avoid_journals' = RowsAs(f_avoid, encodings[Winner(f_avoid)])
            /\ Winner(f_avoid) = 0 => f_avoid' = <<>> /\ avoid_journals' = {}
      ]_vars

\* the final save of a batch writes the year document
PersistStep == pc = "save" /\ pc' = "done" /\ selected_papers # <<>>

\* C24: no record is persisted by process_eml_files whose journal name, in
\* lower case, is in the avoid-journal set at the moment it is persisted,
\* also when the name was replaced through the journal mapping or by the
\* operator after the avoid check.
C24_NoAvoidedJournalPersisted ==
    [][ PersistStep =>
            \A n \in DOMAIN selected_papers :
                Lower(selected_papers[n].journal) \notin avoid_journals
      ]_vars

\* the records the batch accepted, in the order it accepted them
Accepted == SelectSeq(outcomes, LAMBDA o : o.state = "Persisted")

Resolved(md) == [title |-> md.title, year |-> md.year]

\* the papers the operator has declined in this batch: what the lookup of
\* title n resolved to, for the titles that ended with the answer to "Add
\* this paper to the database?" being other than 'y'
Declined ==
    {Resolved(StorageFormat(lookup_results[n].paper_info)) :
        n \in {m \in DOMAIN lookup_results :
                 \E a \in DOMAIN outcomes :
                    /\ outcomes[a].state = "OperatorRejected"
                    /\ outcomes[a].reason = "declined"
                    /\ outcomes[a].title = filtered_titles[m]}}

\* C26: no re-prompting.  Once the operator has declined a paper, a later
\* candidate of the batch whose lookup resolves to the same title and the
\* same year, a missing year included, is rejected without the operator
\* being shown it again.
C26_NoRePrompt ==
    [][ Len(prompts') > Len(prompts) => Resolved(paper_metadata') \notin Declined ]_vars

\* no merge or rename target is a deleted topic, a merge source or a rename
\* source
TargetsStay == Targets \cap Removed = {}

\* C27: after a run of the migrator that is not dry, under a configuration
\* in which no merge or rename target is itself a deleted topic or a merge
\* or rename source, every topic tag on every surviving record is in the
\* topic registry, and no surviving record carries a deleted topic, a merge
\* source or a rename source.
C27_RecordsAndRegistryConsistent ==
    [][ (MigrateStep /\ ~dry_run' /\ TargetsStay) =>
          /\ TagsOn(f_json') \subseteq Names(f_topics')
          /\ TagsOn(f_json') \cap Removed = {}
      ]_vars

\* C27 witness: "wrf" is deleted and "wavelet" merges into "optimization";
\* one record was deleted, the other was rewritten and carries
\* "optimization" alone, which the registry holds.
C27_Witness ==
    /\ migrations = 1 /\ ~dry_run
    /\ config = [delete |-> {TOPIC_wrf}, merge |-> (TOPIC_wavelet :> TOPIC_optimization),
                 rename |-> <<>>]
    /\ stats.papers_deleted = 1 /\ stats.papers_merged = 1
    /\ TagsOn(f_json) = {TOPIC_optimization}
    /\ Names(f_topics) = {TOPIC_optimization}

(***************************************************************************)
(* save_reviewed_papers on the log as load_reviewed_papers has left it     *)
(***************************************************************************)

\* the ids a session can decide on: of a recent row, of an expired row, of
\* the row with blanks around its id, and an id the log does not hold
SessionIds == {<<35, 97>>, <<35, 100>>, <<35, 103>>, <<35, 104>>}

\* the decisions of the loop: ids added to reviewed_paper_ids and to
\* new_reviewed_papers (run.py 795-796, 849-850)
ReviewSession(ids) ==
    /\ pc = "loaded"
    /\ reviewed_paper_ids' = reviewed_paper_ids \cup ids
    /\ new_reviewed_papers' = new_reviewed_papers \cup ids
    /\ pc' = "session"
    /\ UNCHANGED <<files, now, avoid_journals, avoid_keywords,
                   avoid_url_patterns, unique_paper_ids, journal_mapping, topics,
                   counters, unique_titles, current_year,
                   filtered_titles, selected_papers, k, i, paper_metadata, paper_id,
                   observed, stats, migrations, config, scraper, chromium, calls, dry_run, writes, lookup_results>>

\* if new_reviewed_papers: save_reviewed_papers(new_reviewed_papers, ...)
\* (run.py 887-890)
SaveReviewed ==
    /\ pc = "session"
    /\ f_reviewed' = IF new_reviewed_papers # {}
                     THEN save_reviewed_papers(new_reviewed_papers, f_reviewed, now)
                     ELSE f_reviewed
    /\ pc' = "saved"
    /\ UNCHANGED <<f_avoid, f_keywords, f_urls, f_paper_ids, f_journal, f_topics,
                   f_json, f_gz, now, registries, counters, unique_titles, current_year,
                   filtered_titles, selected_papers, k, i, paper_metadata, paper_id,
                   observed, stats, migrations, config, scraper, chromium, calls, dry_run, writes, lookup_results>>

NextSave ==
    \/ LoadReviewed
    \/ \E ids \in SUBSET SessionIds : ReviewSession(ids)
    \/ SaveReviewed

SpecSave == InitReviewed /\ [][NextSave]_vars

\* the rows of the log that the save keeps: those not older than 365 days,
\* the id without the blanks around it, the date as it is in the file
KeptRows ==
    LET recent == SelectSeq(f_reviewed, LAMBDA r : NotOlderThanAYear(r, now))
    IN  [n \in DOMAIN recent |->
            [paper_id |-> Strip(recent[n].paper_id), date_added |-> recent[n].date_added]]

\* how often the row is in the rows
Copies(rows, row) == Cardinality({n \in DOMAIN rows : rows[n] = row})

\* C28: save_reviewed_papers keeps every row of the file whose date is
\* within 365 days, with the date it has in the file, drops the expired rows
\* and the rows whose date is invalid, adds each id of the session set that
\* is not among the kept rows exactly once, with the current date, and
\* writes the rows sorted by paper_id.
C28_SlidingWindowSave ==
    [][ (pc = "session" /\ pc' = "saved" /\ new_reviewed_papers # {}) =>
          LET kept_ids == {KeptRows[n].paper_id : n \in DOMAIN KeptRows}
              added == new_reviewed_papers \ kept_ids
              today == [kind |-> "date", day |-> now \div TicksPerDay]
          IN  /\ \A n \in DOMAIN KeptRows :
                    Copies(f_reviewed', KeptRows[n]) >= Copies(KeptRows, KeptRows[n])
              /\ \A id \in added :
                    /\ Copies(f_reviewed', [paper_id |-> id, date_added |-> today]) = 1
                    /\ Cardinality({n \in DOMAIN f_reviewed' :
                                       f_reviewed'[n].paper_id = id}) = 1
              /\ Len(f_reviewed') = Len(KeptRows) + Cardinality(added)
              /\ \A a, b \in DOMAIN f_reviewed' :
                    a < b => ~StrLess(f_reviewed'[b].paper_id, f_reviewed'[a].paper_id)
      ]_vars

\* C28 witness: the log held the row of "#b" dated 364 days back and the
\* row of "#d" dated 400 days back; the session decided on "#d" and on
\* "#h"; the log saved holds "#b" with its date and "#d" and "#h" with the
\* date of the day.
C28_Witness ==
    /\ pc = "saved"
    /\ new_reviewed_papers = {<<35, 100>>, <<35, 104>>}
    /\ f_reviewed = << RowDated(<<35, 98>>, 364), RowDated(<<35, 100>>, 0),
                       RowDated(<<35, 104>>, 0) >>

(***************************************************************************)
(* The GoogleScholarScraper under any sequence of calls                    *)
(***************************************************************************)

MaxCalls == 4

\* await scraper.initialize(): uc.start starts the browser or raises; it is
\* not called when the scraper is initialized
CallInitialize(starts) ==
    /\ pc = "scraper"
    /\ Len(calls) < MaxCalls
    /\ IF starts \/ scraper.initialized
       THEN /\ initialize
            /\ calls' = Append(calls, "initialize")
       ELSE /\ UNCHANGED <<scraper, chromium>>
            /\ calls' = Append(calls, "initialize raised")
    /\ UNCHANGED <<pc, BatchState>>

\* await scraper.search_paper(title): initialize() first when the scraper
\* is not initialized (gscholarNoprint.py 99-100), then the search, whose
\* result is the last of lookup_results
CallSearchPaper(title, starts) ==
    /\ pc = "scraper"
    /\ Len(calls) < MaxCalls
    /\ IF starts \/ scraper.initialized
       THEN /\ initialize
            /\ calls' = Append(calls, "search_paper")
            /\ \E r \in search_paper(title) : lookup_results' = <<r>>
       ELSE /\ UNCHANGED <<scraper, chromium, lookup_results>>
            /\ calls' = Append(calls, "search_paper raised")
    /\ UNCHANGED <<pc, files, now, registries, counters, unique_titles, current_year,
                   filtered_titles, selected_papers, k, i, paper_metadata, paper_id,
                   observed, stats, migrations, config, dry_run, writes>>

\* await scraper.close()
CallClose ==
    /\ pc = "scraper"
    /\ Len(calls) < MaxCalls
    /\ close
    /\ calls' = Append(calls, "close")
    /\ UNCHANGED <<pc, BatchState>>

\* a scraper as __init__ leaves it (gscholarNoprint.py 22-25)
InitScraper ==
    /\ FreshStore
    /\ now = FirstDay * TicksPerDay + 1
    /\ BatchIdle
    /\ config = ShippedConfig
    /\ pc = "scraper"
    /\ scraper = [browser |-> 0, initialized |-> FALSE]
    /\ chromium = <<>>
    /\ calls = <<>>

NextScraper ==
    \/ \E starts \in BOOLEAN : CallInitialize(starts)
    \/ \E starts \in BOOLEAN : CallSearchPaper(TITLE_d, starts)
    \/ CallClose

SpecScraper == InitScraper /\ [][NextScraper]_vars

\* the browser processes that have not exited
Running == {n \in DOMAIN chromium : chromium[n] = "running"}

\* initialized is true exactly when a browser handle is held, and the
\* processes running are the one whose handle is held
OneBrowser ==
    /\ scraper.initialized <=> scraper.browser # 0
    /\ Running = IF scraper.browser # 0 THEN {scraper.browser} ELSE {}

\* the call that has just returned
Returned(name) == Len(calls') = Len(calls) + 1 /\ calls'[Len(calls')] = name

\* C29: after any sequence of initialize, search_paper and close calls on a
\* scraper, initialized is true exactly when a browser handle is held;
\* initialize on an initialized scraper starts no second browser;
\* search_paper on a scraper that is not initialized starts the browser
\* first; at most one browser is open at any time, and none after close.
C29_ScraperLifecycle ==
    /\ []OneBrowser
    /\ [][ /\ (Returned("initialize") /\ scraper.initialized) =>
                  UNCHANGED <<scraper, chromium>>
           /\ (Returned("initialize") /\ ~scraper.initialized) =>
                  scraper'.initialized /\ Len(chromium') = Len(chromium) + 1
           /\ (Returned("search_paper") /\ ~scraper.initialized) =>
                  scraper'.initialized /\ Len(chromium') = Len(chromium) + 1
           /\ (Returned("search_paper") /\ scraper.initialized) =>
                  UNCHANGED <<scraper, chromium>>
           /\ Returned("close") =>
                  Running' = {} /\ scraper' = [browser |-> 0, initialized |-> FALSE]
         ]_vars

\* C29 witness: search_paper on a new scraper started a browser, initialize
\* started no second one, close ended it, and a later search_paper started
\* another: two processes in all, the first exited, the second running.
C29_Witness ==
    /\ calls = <<"search_paper", "initialize", "close", "search_paper">>
    /\ chromium = <<"exited", "running">>
    /\ scraper = [browser |-> 2, initialized |-> TRUE]

(***************************************************************************)
(* The migrator run again, with the configuration it ships with            *)
(***************************************************************************)

\* tags of the store that the shipped configuration deletes ("wrf"),
\* renames ("wavelet"), merges ("optimization-tool") and leaves alone
\* ("optimization", a merge target)
ShippedTags == {TOPIC_wrf, TOPIC_wavelet, TOPIC_optimization_tool, TOPIC_optimization}

InitShipped ==
    /\ \E tags1 \in SeqsUpTo(ShippedTags, MaxTags),
          tags2 \in SeqsUpTo(ShippedTags, MaxTags) :
          /\ f_json = (2025 :> <<[RECORD_ac EXCEPT !.topic = tags1],
                                 [RECORD_d EXCEPT !.topic = tags2]>>)
          /\ f_gz = f_json
    /\ f_paper_ids = SortedStrs({RECORD_ac.id, RECORD_d.id})
    /\ f_topics = SortedStrs(ShippedTags)
    /\ f_avoid = <<JOURNAL_sp>> /\ f_keywords = <<KEYWORD_k>> /\ f_urls = <<PATTERN_bad>>
    /\ f_journal = <<>> /\ f_reviewed = <<>>
    /\ now = FirstDay * TicksPerDay + 1
    /\ BatchIdle
    /\ pc = "idle"
    /\ ScraperStarted
    /\ config = ShippedConfig

SpecShipped == InitShipped /\ [][NextMigrate]_vars

\* a run that is not dry, right after a run that was not dry
SecondRun == MigrateStep /\ migrations >= 1 /\ ~dry_run /\ ~dry_run'

\* C30: with the shipped configuration, the migration run a second time
\* right after the first leaves the records and the tags of every JSON
\* document, the set of names of the topic registry and the paper-ID
\* registry as the first run left them, and deletes, merges and renames
\* nothing.
C30_MigrationIdempotent ==
    [][ (SecondRun /\ config = ShippedConfig) =>
          /\ f_json' = f_json
          /\ Names(f_topics') = Names(f_topics)
          /\ f_paper_ids' = f_paper_ids
          /\ stats'.papers_deleted = 0 /\ stats'.deleted_paper_ids = {}
          /\ stats'.papers_merged = 0 /\ stats'.papers_renamed = 0
          /\ stats'.topics_deleted = {}
          /\ stats'.topics_merged = <<>> /\ stats'.topics_renamed = <<>>
      ]_vars

\* C30 witness: the first run deleted the record tagged "wrf" and rewrote
\* "wavelet" and "optimization-tool" on the other; the second run has found
\* nothing to do.
C30_Witness ==
    /\ migrations = 2 /\ ~dry_run
    /\ Len(f_json[2025]) = 1
    /\ f_json[2025][1].topic = <<TOPIC_frequency_analysis, TOPIC_optimization>>
    /\ f_paper_ids = <<RECORD_d.id>>
    /\ TOPIC_wrf \notin Names(f_topics)
    /\ stats.papers_deleted = 0 /\ stats.papers_merged = 0 /\ stats.papers_renamed = 0

====
